---- MODULE Spec2Model ----
(***************************************************************************)
(* Verification model of the mixture cubic-EOS engine of thermo            *)
(* (src/thermo/eos_mix.py): the cached mixing-rule tensors of a GCEOSMIX   *)
(* instance, the fugacity-coefficient formulas of the EOS families, the    *)
(* successive-substitution flash and the Michelsen stability test.         *)
(*                                                                         *)
(* Real numbers are modelled exactly on a sub-domain of the inputs:        *)
(*   - pure-species alpha terms are perfect squares, so that the square    *)
(*     roots taken by the mixing rule are integers;                        *)
(*   - compositions are integer vectors over a common denominator and      *)
(*     K-values are ratios of integers, compared by cross-multiplication;  *)
(*   - in the stability test K-values and corrections are powers of two,   *)
(*     held by their base-2 logarithm.                                     *)
(***************************************************************************)
EXTENDS Integers, Sequences, FiniteSets, TLC

VARIABLES eos, ret, fl, st

vars == <<eos, ret, fl, st>>

(***************************************************************************)
(* Bounds of the model.                                                    *)
(***************************************************************************)
MaxN == 2
MaxT == 2
MaxIter == 2
MaxLnK == 1

Temps == 1..MaxT
BOOL == {TRUE, FALSE}

(***************************************************************************)
(* Attributes that may be missing on an instance (hasattr is false).       *)
(***************************************************************************)
Unset == << >>
Some(v) == <<v>>
IsSet(c) == c # Unset
Val(c) == c[1]

Min2(a, b) == IF a <= b THEN a ELSE b
Max2(a, b) == IF a <= b THEN b ELSE a
Abs(x) == IF x < 0 THEN -x ELSE x

RECURSIVE SumTo(_, _)
SumTo(n, f) == IF n = 0 THEN 0 ELSE f[n] + SumTo(n - 1, f)

(***************************************************************************)
(* x ** 0.5 on the perfect squares the alpha model produces.               *)
(***************************************************************************)
Sqrt(x) == CHOOSE r \in 0..x : r * r = x

(***************************************************************************)
(* Pure-component alpha model: sqrt(a_alpha_i) falls linearly with T and   *)
(* reaches zero for species 1 at T = MaxT.                                 *)
(***************************************************************************)
AlphaRoot(i, T) == (MaxT + 2 * (i - 1)) - T
a_alpha_and_derivatives_vectorized(N, T) ==
    [a_alphas       |-> [i \in 1..N |-> AlphaRoot(i, T) * AlphaRoot(i, T)],
     da_alpha_dTs   |-> [i \in 1..N |-> -2 * AlphaRoot(i, T)],
     d2a_alpha_dT2s |-> [i \in 1..N |-> 2]]

(***************************************************************************)
(* Entries of a_alpha_ij_roots_inv: 0.0 (never written), 1.0/term, or the  *)
(* sentinel 1e100.                                                         *)
(***************************************************************************)
InvZero == [k |-> "zero", den |-> 0]
InvOf(term) == [k |-> "inv", den |-> term]
InvBig == [k |-> "big", den |-> 0]
SentinelInv == 10000

\* x * inv, exact whenever inv is the reciprocal root product of the a_alphas x was formed from
MulInv(x, inv) ==
    IF inv.k = "big" THEN x * SentinelInv
    ELSE IF inv.k = "zero" THEN 0
    ELSE x \div inv.den

a_alpha_aijs_composition_independentMutant(N, a_alphas, kijs) ==
    LET a_alpha_i_roots == [i \in 1..N |-> Sqrt(a_alphas[i])]
        term(i, j) == a_alpha_i_roots[i] * a_alpha_i_roots[j]
    IN  [err |-> \E i \in 1..N : \E j \in i..N : term(i, j) = 0,
         a_alpha_ijs |-> [i \in 1..N |-> [j \in 1..N |->
             IF j >= i THEN (1 - kijs[i][j]) * term(i, j) ELSE 0]],
         a_alpha_i_roots |-> a_alpha_i_roots,
         a_alpha_ij_roots_inv |-> [i \in 1..N |-> [j \in 1..N |->
             IF j >= i THEN InvOf(term(i, j)) ELSE InvZero]]]

(***************************************************************************)
(* a_alpha_aijs_composition_independent: raises ZeroDivisionError (err)    *)
(* when a root product is zero.                                            *)
(***************************************************************************)
a_alpha_aijs_composition_independent(N, a_alphas, kijs) ==
    LET a_alpha_i_roots == [i \in 1..N |-> Sqrt(a_alphas[i])]
        term(i, j) == a_alpha_i_roots[i] * a_alpha_i_roots[j]
    IN  [err |-> \E i \in 1..N : \E j \in i..N : term(i, j) = 0,
         a_alpha_ijs |-> [i \in 1..N |-> [j \in 1..N |->
             (1 - kijs[Min2(i, j)][Max2(i, j)]) * term(Min2(i, j), Max2(i, j))]],
         a_alpha_i_roots |-> a_alpha_i_roots,
         a_alpha_ij_roots_inv |-> [i \in 1..N |-> [j \in 1..N |->
             IF j >= i THEN InvOf(term(i, j)) ELSE InvZero]]]

a_alpha_aijs_composition_independent_support_zeros(N, a_alphas, kijs) ==
    LET a_alpha_i_roots == [i \in 1..N |-> Sqrt(a_alphas[i])]
        term(i, j) == a_alpha_i_roots[i] * a_alpha_i_roots[j]
    IN  [err |-> FALSE,
         a_alpha_ijs |-> [i \in 1..N |-> [j \in 1..N |->
             (1 - kijs[Min2(i, j)][Max2(i, j)]) * term(Min2(i, j), Max2(i, j))]],
         a_alpha_i_roots |-> a_alpha_i_roots,
         a_alpha_ij_roots_inv |-> [i \in 1..N |-> [j \in 1..N |->
             IF j >= i
             THEN (IF term(i, j) = 0 THEN InvBig ELSE InvOf(term(i, j)))
             ELSE InvZero]]]

(***************************************************************************)
(* Module-level a_alpha_and_derivatives (full=False path): the mixture     *)
(* a_alpha from a given pairwise matrix.                                   *)
(***************************************************************************)
a_alpha_and_derivatives(N, zs, a_alpha_ijs) ==
    SumTo(N, [i \in 1..N |->
        SumTo(N, [j \in 1..N |->
            IF j > i THEN 2 * (a_alpha_ijs[i][j] * zs[i] * zs[j]) ELSE 0])
        + a_alpha_ijs[i][i] * zs[i] * zs[i]])

(***************************************************************************)
(* a_alpha_and_derivatives_full with second_derivative=True.  err models   *)
(* the ZeroDivisionError of the d2a_alpha_dT2_ij quotient.                 *)
(***************************************************************************)
a_alpha_and_derivatives_full(N, a_alphas, da_alpha_dTs, d2a_alpha_dT2s, zs, kijs, a_alpha_ijs, a_alpha_ij_roots_inv) ==
    LET x0_05_inv(i, j) == a_alpha_ij_roots_inv[i][j]
        x1_x2(i, j) == a_alphas[i] * da_alpha_dTs[j] + a_alphas[j] * da_alpha_dTs[i]
        kij_m1(i, j) == kijs[i][j] - 1
        x0(i, j) == a_alphas[i] * a_alphas[j]
        da_ij(i, j) == -(MulInv((kij_m1(i, j) * x1_x2(i, j)) \div 2, x0_05_inv(i, j)))
        num(i, j) == x0(i, j) * (-((a_alphas[i] * d2a_alpha_dT2s[j]
                                     + a_alphas[j] * d2a_alpha_dT2s[i]) \div 2)
                                 - da_alpha_dTs[i] * da_alpha_dTs[j])
                     + (x1_x2(i, j) \div 2) * (x1_x2(i, j) \div 2)
        den(i, j) == MulInv(x0(i, j) * x0(i, j), x0_05_inv(i, j))
        d2_ij(i, j) == kij_m1(i, j) * (num(i, j) \div den(i, j))
        up(f(_, _), i, j) == f(Min2(i, j), Max2(i, j))
        zz(i, j) == zs[i] * zs[j]
        err == \E i \in 1..N : \E j \in i..N : den(i, j) = 0
    IN  IF err THEN [err |-> TRUE]
        ELSE
        [err |-> FALSE,
         a_alpha |-> SumTo(N, [i \in 1..N |->
             SumTo(N, [j \in 1..N |->
                 IF j < i THEN 2 * (a_alpha_ijs[i][j] * zz(i, j)) ELSE 0])
             + a_alpha_ijs[i][i] * zz(i, i)]),
         da_alpha_dT |-> SumTo(N, [i \in 1..N |-> SumTo(N, [j \in 1..N |->
             IF j < i THEN 0
             ELSE IF j = i THEN da_ij(i, j) * zz(i, j)
             ELSE 2 * (da_ij(i, j) * zz(i, j))])]),
         d2a_alpha_dT2 |-> SumTo(N, [i \in 1..N |-> SumTo(N, [j \in 1..N |->
             IF j < i THEN 0
             ELSE IF j = i THEN d2_ij(i, j) * zz(i, j)
             ELSE 2 * (d2_ij(i, j) * zz(i, j))])]),
         d2a_alpha_dT2_ijs |-> [i \in 1..N |-> [j \in 1..N |-> up(d2_ij, i, j)]],
         da_alpha_dT_ijs |-> [i \in 1..N |-> [j \in 1..N |-> up(da_ij, i, j)]],
         a_alpha_ijs |-> a_alpha_ijs]

(***************************************************************************)
(* The instance: fields of a GCEOSMIX object.  Species constants (bs) and   *)
(* kijs are fixed; units are chosen with R = 1.                             *)
(***************************************************************************)
Families == {"GENERIC", "PR", "SRK", "VDW"}
Compositions(N) == {[i \in 1..N |-> 1], [i \in 1..N |-> i]}
KijsOf(N) == {[i \in 1..N |-> [j \in 1..N |-> IF i = j THEN 0 ELSE -1]]}
bsOf(N) == [i \in 1..N |-> i]
aisOf(N) == [i \in 1..N |-> i * i]

\* the object after __new__ / the attribute assignments of __init__, before solve()
NewInstance(family, N, T, P, zs, kijs) ==
    [family |-> family, N |-> N, T |-> T, P |-> P, zs |-> zs, kijs |-> kijs,
     bs |-> bsOf(N),
     b |-> SumTo(N, [i \in 1..N |-> bsOf(N)[i] * zs[i]]),
     a_alphas |-> Unset, da_alpha_dTs |-> Unset, d2a_alpha_dT2s |-> Unset,
     a_alpha_ijs |-> Unset, a_alpha_i_roots |-> Unset, a_alpha_ij_roots_inv |-> Unset,
     da_alpha_dT_ijs |-> Unset, d2a_alpha_dT2_ijs |-> Unset,
     a_alpha |-> Unset, fugacity_sum_terms |-> Unset,
     Tc |-> Unset, Pc |-> Unset, omega |-> Unset, a |-> Unset, V |-> Unset]

(***************************************************************************)
(* GCEOSMIX.a_alpha_and_derivatives followed by a_alpha_and_derivatives_py *)
(* on instance s0: the instance afterwards and the value returned, or the  *)
(* exception that leaves the method.  The steps of the method are the      *)
(* operators below, each taking the locals its code region reads.          *)
(***************************************************************************)
\* lines 673-696: the full tensors (or the N = 1 fallback), the final stores, the return
py_full_and_return(s2, full, hit, a_alphas, da_alpha_dTs, d2a_alpha_dT2s, a_alpha_ijs, f) ==
    IF full
    THEN IF ~f.err
         THEN [eos |-> [s2 EXCEPT !.d2a_alpha_dT2_ijs = Some(f.d2a_alpha_dT2_ijs),
                                  !.da_alpha_dT_ijs = Some(f.da_alpha_dT_ijs),
                                  !.a_alpha_ijs = Some(f.a_alpha_ijs)],
               exc |-> "none", recomputed |-> ~hit,
               value |-> <<f.a_alpha, f.da_alpha_dT, f.d2a_alpha_dT2>>]
         ELSE IF s2.N = 1
         THEN [eos |-> [s2 EXCEPT !.d2a_alpha_dT2_ijs = Some(<<<<d2a_alpha_dT2s[1]>>>>),
                                  !.da_alpha_dT_ijs = Some(<<<<da_alpha_dTs[1]>>>>),
                                  !.a_alpha_ijs = Some(<<<<a_alphas[1]>>>>)],
               exc |-> "none", recomputed |-> ~hit,
               value |-> <<a_alphas[1], da_alpha_dTs[1], d2a_alpha_dT2s[1]>>]
         ELSE [eos |-> s2, exc |-> "UnboundLocalError", recomputed |-> ~hit,
               value |-> << >>]
    ELSE [eos |-> [s2 EXCEPT !.da_alpha_dT_ijs = Some(<< >>),
                             !.a_alpha_ijs = Some(a_alpha_ijs)],
          exc |-> "none", recomputed |-> ~hit,
          value |-> <<a_alpha_and_derivatives(s2.N, s2.zs, a_alpha_ijs)>>]

\* lines 663, 670-671: the pairwise results c are stored in the quick branch, or if same_T
py_store_pairs(s1, same_T, full, quick, hit, a_alphas, da_alpha_dTs, d2a_alpha_dT2s, c) ==
    py_full_and_return(
        IF ~hit /\ (quick \/ same_T)
        THEN [s1 EXCEPT !.a_alpha_ijs = Some(c.a_alpha_ijs),
                        !.a_alpha_i_roots = Some(c.a_alpha_i_roots),
                        !.a_alpha_ij_roots_inv = Some(c.a_alpha_ij_roots_inv)]
        ELSE s1,
        full, hit, a_alphas, da_alpha_dTs, d2a_alpha_dT2s, c.a_alpha_ijs,
        IF full
        THEN a_alpha_and_derivatives_full(s1.N, a_alphas, da_alpha_dTs, d2a_alpha_dT2s,
                                          s1.zs, s1.kijs, c.a_alpha_ijs, c.a_alpha_ij_roots_inv)
        ELSE [err |-> FALSE])

\* lines 659-662 and 666-669: the ZeroDivisionError of the fast routine selects support_zeros
py_support_zeros(N, a_alphas, kijs, c0) ==
    IF c0.err
    THEN a_alpha_aijs_composition_independent_support_zeros(N, a_alphas, kijs)
    ELSE c0

\* lines 653-669: read the three caches (quick, same T, all present) or compute them
py_pairs(s1, same_T, full, quick, hit, a_alphas, da_alpha_dTs, d2a_alpha_dT2s) ==
    py_store_pairs(s1, same_T, full, quick, hit, a_alphas, da_alpha_dTs, d2a_alpha_dT2s,
        IF hit
        THEN [a_alpha_ijs |-> Val(s1.a_alpha_ijs),
              a_alpha_i_roots |-> Val(s1.a_alpha_i_roots),
              a_alpha_ij_roots_inv |-> Val(s1.a_alpha_ij_roots_inv)]
        ELSE py_support_zeros(s1.N, a_alphas, s1.kijs,
                 a_alpha_aijs_composition_independent(s1.N, a_alphas, s1.kijs)))

py_localsMutant(s1, same_T, full, quick) ==
    py_pairs(s1, same_T, full, quick, FALSE,
             Val(s1.a_alphas), Val(s1.da_alpha_dTs), Val(s1.d2a_alpha_dT2s))

\* lines 647-652: the locals of a_alpha_and_derivatives_py
py_locals(s1, same_T, full, quick) ==
    py_pairs(s1, same_T, full, quick,
             /\ quick
             /\ same_T
             /\ IsSet(s1.a_alpha_ijs)
             /\ IsSet(s1.a_alpha_i_roots)
             /\ IsSet(s1.a_alpha_ij_roots_inv),
             Val(s1.a_alphas), Val(s1.da_alpha_dTs), Val(s1.d2a_alpha_dT2s))

\* lines 636-638: pure_a_alphas stores the pure-component values for T on the instance
py_store_pure(s0, pure) ==
    [s0 EXCEPT !.a_alphas = Some(pure.a_alphas),
               !.da_alpha_dTs = Some(pure.da_alpha_dTs),
               !.d2a_alpha_dT2s = Some(pure.d2a_alpha_dT2s)]

a_alpha_and_derivatives_py(s0, T, full, quick, pure_a_alphas) ==
    py_locals(IF pure_a_alphas
              THEN py_store_pure(s0, a_alpha_and_derivatives_vectorized(s0.N, T))
              ELSE s0,
              T = s0.T, full, quick)

(***************************************************************************)
(* GCEOS.solve as far as the mixture attraction term goes: evaluates       *)
(* a_alpha_and_derivatives at the instance's own T and keeps a_alpha.      *)
(***************************************************************************)
solve_keep(r) ==
    IF r.exc = "none"
    THEN [r EXCEPT !.eos = [r.eos EXCEPT !.a_alpha = Some(r.value[1])]]
    ELSE r

solve(s, pure_a_alphas, full_alphas) ==
    solve_keep(a_alpha_and_derivatives_py(s, s.T, full_alphas, TRUE, pure_a_alphas))

\* the constructor: attribute assignments, then solve()
Construct(family, N, T, P, zs, kijs) ==
    solve(NewInstance(family, N, T, P, zs, kijs), TRUE, TRUE)

(***************************************************************************)
(* to_TP_zs_fast: a new object sharing the species constants; the pure      *)
(* alphas and the pairwise caches are copied when T equals self.T.          *)
(***************************************************************************)
\* lines 281-291: the copies made when T == self.T
\* (the cache copies sit in one try block: the first missing attribute ends it)
to_TP_zs_fast_copy(new, s) ==
    [new EXCEPT !.a_alphas = s.a_alphas,
                !.da_alpha_dTs = s.da_alpha_dTs,
                !.d2a_alpha_dT2s = s.d2a_alpha_dT2s,
                !.a_alpha_ijs = s.a_alpha_ijs,
                !.a_alpha_i_roots =
                    IF IsSet(s.a_alpha_ijs) THEN s.a_alpha_i_roots ELSE Unset,
                !.a_alpha_ij_roots_inv =
                    IF IsSet(s.a_alpha_ijs) /\ IsSet(s.a_alpha_i_roots)
                    THEN s.a_alpha_ij_roots_inv ELSE Unset]

to_TP_zs_fast(s, T, P, zs, full_alphas) ==
    solve(IF T = s.T
          THEN to_TP_zs_fast_copy(NewInstance(s.family, s.N, T, P, zs, s.kijs), s)
          ELSE NewInstance(s.family, s.N, T, P, zs, s.kijs),
          T # s.T, full_alphas)

(***************************************************************************)
(* State of the other state machines while they are not running.           *)
(***************************************************************************)
NoRet == [op |-> "none"]
IdleFl == [pc |-> "idle"]
IdleSt == [pc |-> "idle"]

(***************************************************************************)
(* SpecCache: one instance and the operations that touch its caches.       *)
(***************************************************************************)
InitCache ==
    /\ \E N \in 1..MaxN, T \in Temps :
         \E zs \in Compositions(N), kijs \in KijsOf(N) :
          \E r \in {Construct("PR", N, T, 1, zs, kijs)} :
            /\ r.exc = "none"
            /\ eos = r.eos
    /\ ret = NoRet
    /\ fl = IdleFl
    /\ st = IdleSt

\* a call of a_alpha_and_derivatives(T, full, quick, pure_a_alphas) on the instance
AAlphaAndDerivatives ==
    \E T \in Temps, full \in BOOL, quick \in BOOL, pure_a_alphas \in BOOL :
      \E r \in {a_alpha_and_derivatives_py(eos, T, full, quick, pure_a_alphas)} :
        /\ eos' = r.eos
        /\ ret' = [op |-> "a_alpha_and_derivatives", exc |-> r.exc]
        /\ UNCHANGED <<fl, st>>

\* lines 940-946: the three del statements in one try block; the first missing
\* attribute ends the block
delete_caches(s) ==
    IF IsSet(s.a_alpha_ijs)
    THEN [s EXCEPT !.a_alpha_ijs = Unset,
                   !.a_alpha_i_roots = Unset,
                   !.a_alpha_ij_roots_inv =
                       IF IsSet(s.a_alpha_i_roots) THEN Unset
                       ELSE s.a_alpha_ij_roots_inv]
    ELSE s

\* one evaluation of _mechanical_critical_point_f_jac at the Newton iterate T
MechanicalCriticalPointFJac ==
    \E T \in Temps :
      \E r \in {a_alpha_and_derivatives_py(delete_caches(eos), T, TRUE, TRUE, TRUE)} :
        /\ eos' = r.eos
        /\ ret' = [op |-> "_mechanical_critical_point_f_jac", exc |-> r.exc]
        /\ UNCHANGED <<fl, st>>

\* lines 548-564 of Psat, for the calls in which GCEOS.Psat returns: the pure-EOS
\* attributes are set for the call, and Tc, Pc and omega are deleted after it
Psat(s) ==
    IF s.N = 1
    THEN [eos |-> [s EXCEPT !.Tc = Unset, !.Pc = Unset, !.omega = Unset,
                            !.a = Some(aisOf(s.N)[1])],
          exc |-> "none"]
    ELSE [eos |-> s, exc |-> "UnboundLocalError"]

\* a call of Psat(T) on the instance
PsatCall ==
    \E r \in {Psat(eos)} :
      /\ eos' = r.eos
      /\ ret' = [op |-> "Psat", exc |-> r.exc]
      /\ UNCHANGED <<fl, st>>

\* to_TP_zs_fast(T, P, zs); the model goes on with the new object
ToTPzsFast ==
    \E T \in Temps, full_alphas \in BOOL :
      \E zs \in Compositions(eos.N) :
      \E r \in {to_TP_zs_fast(eos, T, 1, zs, full_alphas)} :
        /\ eos' = IF r.exc = "none" THEN r.eos ELSE eos
        /\ ret' = [op |-> "to_TP_zs_fast", exc |-> r.exc]
        /\ UNCHANGED <<fl, st>>

NextCache ==
    AAlphaAndDerivatives \/ MechanicalCriticalPointFJac \/ PsatCall \/ ToTPzsFast

SpecCache == InitCache /\ [][NextCache]_vars

(***************************************************************************)
(* The tensors a fresh evaluation at temperature T gives for instance s.    *)
(***************************************************************************)
FreshPure(s, T) == a_alpha_and_derivatives_vectorized(s.N, T)
FreshPairs(s, T) ==
    LET c0 == a_alpha_aijs_composition_independent(s.N, FreshPure(s, T).a_alphas, s.kijs)
    IN  IF c0.err
        THEN a_alpha_aijs_composition_independent_support_zeros(s.N, FreshPure(s, T).a_alphas, s.kijs)
        ELSE c0
FreshFull(s, T) ==
    a_alpha_and_derivatives_full(s.N, FreshPure(s, T).a_alphas, FreshPure(s, T).da_alpha_dTs,
                                 FreshPure(s, T).d2a_alpha_dT2s, s.zs, s.kijs,
                                 FreshPairs(s, T).a_alpha_ijs,
                                 FreshPairs(s, T).a_alpha_ij_roots_inv)

PureAtOwnT ==
    /\ eos.a_alphas = Some(FreshPure(eos, eos.T).a_alphas)
    /\ eos.da_alpha_dTs = Some(FreshPure(eos, eos.T).da_alpha_dTs)
    /\ eos.d2a_alpha_dT2s = Some(FreshPure(eos, eos.T).d2a_alpha_dT2s)
PairsAtOwnT ==
    /\ IsSet(eos.a_alpha_ijs) => eos.a_alpha_ijs = Some(FreshPairs(eos, eos.T).a_alpha_ijs)
    /\ IsSet(eos.a_alpha_i_roots) =>
           eos.a_alpha_i_roots = Some(FreshPairs(eos, eos.T).a_alpha_i_roots)
    /\ IsSet(eos.a_alpha_ij_roots_inv) =>
           eos.a_alpha_ij_roots_inv = Some(FreshPairs(eos, eos.T).a_alpha_ij_roots_inv)

TensorsAtOwnT ==
    \A f \in {FreshFull(eos, eos.T)} : ~f.err =>
        /\ IsSet(eos.d2a_alpha_dT2_ijs) =>
               eos.d2a_alpha_dT2_ijs = Some(f.d2a_alpha_dT2_ijs)
        /\ (IsSet(eos.da_alpha_dT_ijs) /\ Val(eos.da_alpha_dT_ijs) # << >>) =>
               eos.da_alpha_dT_ijs = Some(f.da_alpha_dT_ijs)

\* C1: after any sequence of operations the pure-species a_alphas, the pairwise
\* a_alpha_ijs, a_alpha_i_roots and a_alpha_ij_roots_inv and the temperature-derivative
\* tensors stored on the instance are the ones computed at the instance's own T.
C1_CachesAtOwnT == PureAtOwnT /\ PairsAtOwnT /\ TensorsAtOwnT

(***************************************************************************)
(* Exact rational arithmetic for compositions, K-values and tolerances.     *)
(***************************************************************************)
RECURSIVE GCD(_, _)
GCD(a, b) == IF b = 0 THEN a ELSE GCD(b, a % b)

\* n/d with d # 0, reduced, denominator positive
Rat(n, d) ==
    LET g == GCD(Abs(n), Abs(d))
        sg == IF d < 0 THEN -1 ELSE 1
    IN  [n |-> sg * (n \div g), d |-> sg * (d \div g)]
RAdd(a, b) == Rat(a.n * b.d + b.n * a.d, a.d * b.d)
RSub(a, b) == Rat(a.n * b.d - b.n * a.d, a.d * b.d)
RMul(a, b) == Rat(a.n * b.n, a.d * b.d)
RDiv(a, b) == Rat(a.n * b.d, a.d * b.n)
RAbs(a) == [n |-> Abs(a.n), d |-> a.d]
RLess(a, b) == a.n * b.d < b.n * a.d
ROne == [n |-> 1, d |-> 1]
RZero == [n |-> 0, d |-> 1]

RECURSIVE RSumTo(_, _)
RSumTo(n, f) == IF n = 0 THEN RZero ELSE RAdd(f[n], RSumTo(n - 1, f))

\* a composition: numerators v over the common denominator d
Frac(c, i) == Rat(c.v[i], c.d)
Len2(c) == Len(c.v)

(***************************************************************************)
(* sequential_substitution_VL                                              *)
(***************************************************************************)
\* trial compositions the solvers hand around (N = 2)
TrialComps == {[v |-> <<1, 3>>, d |-> 4], [v |-> <<2, 2>>, d |-> 4]}
\* what flash_inner_loop may give back: a composition, possibly with a negative entry
RRComps == TrialComps \cup {[v |-> <<-1, 5>>, d |-> 4]}
VFs == {Rat(1, 2)}
\* fugacity coefficients phi = exp(lnphi) of the two sub-evaluations
PhisL == {<<1, 1>>, <<2, 2>>}
PhisG == {<<1, 1>>, <<1, 3>>}
Tolerances == {Rat(1, 16)}

\* Ks = [exp(l - g) for l, g in zip(lnphis_l, lnphis_g)]
KsOf(phis_l, phis_g) == [i \in 1..Len(phis_l) |-> Rat(phis_l[i], phis_g[i])]

DegeneracyGuardMutant(c) ==
    IF \E i \in 1..Len2(c) : c.v[i] < 0
    THEN [v |-> [i \in 1..Len2(c) |-> Abs(c.v[i])], d |-> c.d]
    ELSE c

\* the degeneracy guard on one composition vector
DegeneracyGuard(c) ==
    IF \E i \in 1..Len2(c) : c.v[i] < 0
    THEN [v |-> [i \in 1..Len2(c) |-> Abs(c.v[i])],
          d |-> SumTo(Len2(c), [i \in 1..Len2(c) |-> Abs(c.v[i])])]
    ELSE c

\* err3 = sum over the species of (Ki*xi/yi - 1)^2
Err3(Ks, xs, ys) ==
    RSumTo(Len(Ks), [i \in 1..Len(Ks) |->
        LET err_i == RSub(RDiv(RMul(Ks[i], Frac(xs, i)), Frac(ys, i)), ROne)
        IN  RMul(err_i, err_i)])

\* the compositions the error function of an iteration is evaluated with
Err3Mutant(Ks, xs, ys, xs_new, ys_new) == Err3(Ks, xs_new, ys_new)
Err3InLoop(Ks, xs, ys, xs_new, ys_new) == Err3(Ks, xs, ys)

\* comp_difference = sum([abs(xi - yi) for xi, yi in zip(xs, ys)])
CompDifference(xs, ys) ==
    RSumTo(Len2(xs), [i \in 1..Len2(xs) |-> RAbs(RSub(Frac(xs, i), Frac(ys, i)))])

\* the composition a sub-evaluation holds at the end of an iteration: eos_l and eos_g
\* are built at the head of the loop body from the trial xs, ys and are not rebuilt
\* after xs, ys = xs_new, ys_new
SubstateCompMutant(zs, zs_new) == zs_new
SubstateComp(zs, zs_new) == zs

\* the trivial-solution guard of the loop body
TrivialGuard(near_critical, xs, ys, tol) ==
    near_critical /\ RLess(CompDifference(xs, ys), tol)

\* the end of the loop body: break, raise or go on; i counts from 0
LoopEndMutant(i, maxiter, converged) ==
    IF i = maxiter - 1 THEN "raise"
    ELSE IF converged THEN "break"
    ELSE "continue"
LoopEnd(i, maxiter, converged) ==
    IF converged THEN "break"
    ELSE IF i = maxiter - 1 THEN "raise"
    ELSE "continue"

\* which root of a sub-evaluation the loop takes: the one of its own branch, the
\* other one (near_critical), or none (AttributeError).  roots is the root the
\* sub-evaluation has.
RootTaken(near_critical, roots, branch) ==
    IF roots = branch THEN branch
    ELSE IF near_critical THEN roots
    ELSE "AttributeError"

Branches == {"l", "g"}

InitFlash ==
    /\ eos = Construct("PR", 2, 1, 1, <<1, 1>>, <<<<0, -1>>, <<-1, 0>>>>).eos
    /\ ret = NoRet
    /\ fl = IdleFl
    /\ st = IdleSt

\* locals of a call that has not yet entered the loop
SSLocals(maxiter, near_critical, xtol, trivial_solution_tol, supplied, xs, ys, V_over_F) ==
    [maxiter |-> maxiter, near_critical |-> near_critical,
     xtol |-> xtol, trivial_solution_tol |-> trivial_solution_tol,
     supplied |-> supplied, i |-> -1, stage |-> "before",
     xs |-> xs, ys |-> ys, V_over_F |-> V_over_F,
     Ks |-> Unset, err3 |-> Unset, eos_l |-> Unset, eos_g |-> Unset,
     xs_rr |-> Unset, ys_rr |-> Unset]

\* the call and everything before the loop: the trial compositions are the ones
\* supplied, or come from Rachford-Rice on the initial K-values (which may fail)
SSCall ==
    /\ fl.pc = "idle"
    /\ \E maxiter \in 0..MaxIter, near_critical \in BOOL,
          xtol \in Tolerances, trivial_solution_tol \in Tolerances :
        \/ \E xs \in TrialComps, ys \in TrialComps :
             fl' = SSLocals(maxiter, near_critical, xtol, trivial_solution_tol,
                            TRUE, xs, ys, Unset)
                   @@ (IF maxiter = 0
                       THEN [pc |-> "raised", exc |-> "UnboundLocalError"]
                       ELSE [pc |-> "loop", exc |-> "none"])
        \/ \E xs \in TrialComps, ys \in TrialComps, V_over_F \in VFs :
             fl' = SSLocals(maxiter, near_critical, xtol, trivial_solution_tol,
                            FALSE, xs, ys, Some(V_over_F))
                   @@ (IF maxiter = 0
                       THEN [pc |-> "raised", exc |-> "UnboundLocalError"]
                       ELSE [pc |-> "loop", exc |-> "none"])
        \/ fl' = SSLocals(maxiter, near_critical, xtol, trivial_solution_tol,
                          FALSE, Unset, Unset, Unset)
                 @@ [pc |-> "raised", exc |-> "ValueError"]
    /\ ret' = NoRet
    /\ UNCHANGED <<eos, st>>

\* one pass through the loop body, by the place where it ends
SSIterate ==
    /\ fl.pc = "loop"
    /\ \E roots_g \in Branches, roots_l \in Branches :
         LET i == fl.i + 1
             eos_g == [zs |-> fl.ys, roots |-> roots_g]
             eos_l == [zs |-> fl.xs, roots |-> roots_l]
             taken_g == RootTaken(fl.near_critical, roots_g, "g")
             taken_l == RootTaken(fl.near_critical, roots_l, "l")
             s1 == [fl EXCEPT !.i = i, !.eos_g = Some(eos_g), !.eos_l = Some(eos_l)]
         IN  IF taken_g = "AttributeError" \/ taken_l = "AttributeError"
             THEN \* reading Z_g or Z_l of a sub-evaluation that lacks it
                  fl' = [s1 EXCEPT !.pc = "raised", !.exc = "AttributeError",
                                   !.stage = "roots"]
             ELSE
               \/ \* fugacity_coefficients raises
                  fl' = [s1 EXCEPT !.pc = "raised", !.exc = "ValueError",
                                   !.stage = "fugacity"]
               \/ \E phis_l \in PhisL, phis_g \in PhisG :
                    LET Ks == KsOf(phis_l, phis_g)
                    IN  \/ \* flash_inner_loop raises
                           fl' = [s1 EXCEPT !.pc = "raised", !.exc = "ValueError",
                                            !.stage = "rr", !.Ks = Some(Ks)]
                        \/ \E V_over_F \in VFs, xs_rr \in RRComps, ys_rr \in RRComps :
                             LET xs_new == DegeneracyGuard(xs_rr)
                                 ys_new == DegeneracyGuard(ys_rr)
                                 err3 == Err3InLoop(Ks, fl.xs, fl.ys, xs_new, ys_new)
                                 s2 == [s1 EXCEPT !.eos_l = Some([eos_l EXCEPT !.zs = SubstateComp(fl.xs, xs_new)]),
                                                  !.eos_g = Some([eos_g EXCEPT !.zs = SubstateComp(fl.ys, ys_new)]),
                                                  !.Ks = Some(Ks),
                                                  !.V_over_F = Some(V_over_F),
                                                  !.err3 = Some(err3),
                                                  !.xs = xs_new, !.ys = ys_new,
                                                  !.xs_rr = Some(xs_rr),
                                                  !.ys_rr = Some(ys_rr),
                                                  !.stage = "end"]
                                 end == LoopEnd(i, fl.maxiter, RLess(err3, fl.xtol))
                             IN  fl' =
                                   IF TrivialGuard(fl.near_critical, xs_new, ys_new,
                                                   fl.trivial_solution_tol)
                                   THEN [s2 EXCEPT !.pc = "raised",
                                                   !.exc = "Converged to trivial condition"]
                                   ELSE IF end = "break"
                                   THEN [s2 EXCEPT !.pc = "returned"]
                                   ELSE IF end = "raise"
                                   THEN [s2 EXCEPT !.pc = "raised",
                                                   !.exc = "End of SS without convergence"]
                                   ELSE s2
    /\ UNCHANGED <<eos, ret, st>>

(***************************************************************************)
(* _err_VL, the residual of the Newton and Broyden variants: which         *)
(* fugacity coefficients it reads from the two sub-evaluations.            *)
(***************************************************************************)
ErrVL ==
    /\ fl.pc = "idle"
    /\ \E near_critical \in BOOL, roots_g \in Branches, roots_l \in Branches :
         LET taken_g == RootTaken(near_critical, roots_g, "g")
             taken_l == RootTaken(near_critical, roots_l, "l")
         IN  ret' = [op |-> "_err_VL", near_critical |-> near_critical,
                     roots_g |-> roots_g, roots_l |-> roots_l,
                     taken_g |-> taken_g, taken_l |-> taken_l,
                     exc |-> IF taken_g = "AttributeError" \/ taken_l = "AttributeError"
                             THEN "AttributeError" ELSE "none"]
    /\ UNCHANGED <<eos, fl, st>>

NextFlash == SSCall \/ SSIterate \/ ErrVL

SpecFlash == InitFlash /\ [][NextFlash]_vars

\* the last iteration ran to the end of the loop body's updates
ReachedUpdate == fl.pc # "idle" /\ fl.i >= 0 /\ fl.stage = "end"
Converged == RLess(Val(fl.err3), fl.xtol)

\* C2: sequential_substitution_VL returns a result only if, in its final iteration,
\* the sum over the species of (K_i*x_i/y_i - 1)^2 is below xtol, with the K-values
\* updated in that iteration and the trial compositions at which that iteration's
\* fugacity coefficients were evaluated.
C2_ReturnOnlyWhenConverged ==
    fl.pc = "returned" =>
        /\ fl.stage = "end"
        /\ RLess(Err3(Val(fl.Ks), Val(fl.eos_l).zs, Val(fl.eos_g).zs), fl.xtol)
C2_Witness ==
    /\ fl.pc = "returned"
    /\ fl.xtol = Rat(1, 16)
    /\ Val(fl.eos_l).zs # Val(fl.eos_g).zs
    /\ fl.xs # Val(fl.eos_l).zs

\* C3: in any iteration whose updated compositions satisfy
\* sum_i |x_i - y_i| < trivial_solution_tol the call fails with the trivial-condition
\* error, for every setting of near_critical and also when the convergence criterion
\* is met in that iteration.
C3_TrivialAlwaysFails ==
    (ReachedUpdate /\ RLess(CompDifference(fl.xs, fl.ys), fl.trivial_solution_tol)) =>
        (fl.pc = "raised" /\ fl.exc = "Converged to trivial condition")

C8_MissingRootFails ==
    /\ (fl.pc # "idle" /\ fl.i >= 0
          /\ (Val(fl.eos_g).roots # "g" \/ Val(fl.eos_l).roots # "l")) =>
           (fl.pc = "raised" /\ fl.exc = "AttributeError")
    /\ (ret.op = "_err_VL" /\ (ret.roots_g # "g" \/ ret.roots_l # "l")) =>
           ret.exc = "AttributeError"

(***************************************************************************)
(* Log fugacity coefficients.  With R = 1, B = b*P/T and the sign of Z - B  *)
(* is the sign of Z*T - b*P.  math.log raises ValueError for an argument    *)
(* that is not positive; a log term is kept as its argument, or as the      *)
(* value that an except clause substitutes for it.                         *)
(***************************************************************************)
Zs == {1, 2, 6}

LogOf(arg) == [k |-> "log", arg |-> arg]
Substituted(v) == [k |-> "const", arg |-> v]
LogDomainError(arg) == arg <= 0

\* the property GCEOSMIX._fugacity_sum_terms: the cached list, else built from self.zs
fugacity_sum_terms_property(s) ==
    IF IsSet(s.fugacity_sum_terms)
    THEN [eos |-> s, value |-> Val(s.fugacity_sum_terms)]
    ELSE LET a_alpha_ijs == Val(s.a_alpha_ijs)
             terms == [i \in 1..s.N |->
                          SumTo(s.N, [j \in 1..s.N |-> s.zs[j] * a_alpha_ijs[i][j]])]
         IN  [eos |-> [s EXCEPT !.fugacity_sum_terms = Some(terms)], value |-> terms]

\* PRMIX.fugacity_coefficients
PR_fugacity_coefficients(s, Z, zs) ==
    LET ZmB == Z * s.T - s.b * s.P
        ZB == Z * s.T + s.b * s.P
        \* the sign of ZB - root_two_B: (Z + B)^2 against 2*B^2
        x4_negative == ZB * ZB <= 2 * (s.b * s.P) * (s.b * s.P)
        x0 == IF LogDomainError(ZmB) THEN Substituted(0) ELSE LogOf(ZmB)
        x4 == IF x4_negative THEN Substituted(0) ELSE LogOf(<<ZB, s.b * s.P>>)
        fst == fugacity_sum_terms_property(s)
        zero_division == Val(s.a_alpha) * (s.b * s.P) = 0
    IN  [eos |-> fst.eos, exc |-> "none",
         domain |-> LogDomainError(ZmB) \/ x4_negative,
         lnphis |-> IF zero_division
                    THEN [i \in 1..s.N |-> Substituted(0)]
                    ELSE [i \in 1..s.N |->
                             [bi |-> s.bs[i], log_ZmB |-> x0, log_2 |-> x4,
                              sum_term |-> fst.value[i]]]]

\* SRKMIX.fugacity_coefficients
SRK_fugacity_coefficients(s, Z, zs) ==
    LET ZmB == Z * s.T - s.b * s.P
        a_alpha_ijs == Val(s.a_alpha_ijs)
        terms == [i \in 1..s.N |->
                     SumTo(s.N, [j \in 1..s.N |-> zs[j] * a_alpha_ijs[i][j]])]
    IN  IF LogDomainError(ZmB)
        THEN [eos |-> s, exc |-> "ValueError", domain |-> TRUE, lnphis |-> << >>]
        ELSE IF Val(s.a_alpha) = 0
        THEN [eos |-> s, exc |-> "ZeroDivisionError", domain |-> FALSE, lnphis |-> << >>]
        ELSE [eos |-> [s EXCEPT !.fugacity_sum_terms = Some(terms)], exc |-> "none",
              domain |-> FALSE,
              lnphis |-> [i \in 1..s.N |->
                             [bi |-> s.bs[i], log_ZmB |-> LogOf(ZmB),
                              log_2 |-> LogOf(<<Z * s.T + s.b * s.P, Z * s.T>>),
                              sum_term |-> terms[i]]]]

\* VDWMIX.fugacity_coefficients
VDW_fugacity_coefficients(s, Z, zs) ==
    LET ZmB == Z * s.T - s.b * s.P
    IN  IF LogDomainError(ZmB)
        THEN [eos |-> s, exc |-> "ValueError", domain |-> TRUE, lnphis |-> << >>]
        ELSE [eos |-> s, exc |-> "none", domain |-> FALSE,
              lnphis |-> [i \in 1..s.N |->
                             [bi |-> s.bs[i], log_ZmB |-> LogOf(ZmB),
                              a_alpha |-> Val(s.a_alpha), ai |-> aisOf(s.N)[i]]]]

\* GCEOSMIX.fugacity_coefficients, the generic formula; F is phi_l or phi_g
generic_fugacity_coefficients(s, Z, zs, F) ==
    [eos |-> s, exc |-> "none", domain |-> LogDomainError(F),
     lnphis |-> [i \in 1..s.N |->
                    [logF |-> IF LogDomainError(F) THEN Substituted(-690) ELSE LogOf(F),
                     dlnphi_dns |-> i]]]

fugacity_coefficients(s, Z, zs, F) ==
    CASE s.family = "PR" -> PR_fugacity_coefficients(s, Z, zs)
      [] s.family = "SRK" -> SRK_fugacity_coefficients(s, Z, zs)
      [] s.family = "VDW" -> VDW_fugacity_coefficients(s, Z, zs)
      [] OTHER -> generic_fugacity_coefficients(s, Z, zs, F)

(***************************************************************************)
(* SpecFug: an instance of one family and calls of fugacity_coefficients.  *)
(***************************************************************************)
InitFug ==
    /\ \E family \in Families, N \in 1..MaxN, T \in Temps :
         \E zs \in Compositions(N), kijs \in KijsOf(N) :
          \E r \in {Construct(family, N, T, 1, zs, kijs)} :
            /\ r.exc = "none"
            /\ eos = r.eos
    /\ ret = NoRet
    /\ fl = IdleFl
    /\ st = IdleSt

FugacityCoefficients ==
    \E Z \in Zs, zs \in Compositions(eos.N) :
      \E F \in IF eos.family = "GENERIC" THEN {0, 1} ELSE {1} :
      \E r \in {fugacity_coefficients(eos, Z, zs, F)} :
        /\ eos' = r.eos
        /\ ret' = [op |-> "fugacity_coefficients", Z |-> Z, zs |-> zs,
                   exc |-> r.exc, domain |-> r.domain, lnphis |-> r.lnphis]
        /\ UNCHANGED <<fl, st>>

NextFug == FugacityCoefficients

SpecFug == InitFug /\ [][NextFug]_vars

\* C6: in every family a call of fugacity_coefficients at a root where a logarithm
\* argument is not positive raises no domain error: it puts zero in place of that
\* logarithm and returns the list of values.
C6_LogDomainErrorCaught ==
    (ret.op = "fugacity_coefficients" /\ ret.domain) =>
        /\ ret.exc = "none"
        /\ \A i \in 1..eos.N : ret.lnphis[i] # Substituted(0) =>
               \A f \in DOMAIN ret.lnphis[i] \cap {"log_ZmB", "log_2"} :
                   ret.lnphis[i][f].k = "const" => ret.lnphis[i][f].arg = 0

\* C7: the composition-weighted sums sum_j zs[j]*a_alpha_ijs[i][j] that enter the
\* result of fugacity_coefficients(Z, zs) are formed from the zs passed to the call,
\* also when that zs is not the instance's own.
C7_UsesPassedZs ==
    (ret.op = "fugacity_coefficients" /\ ret.exc = "none") =>
        \A i \in 1..eos.N : "sum_term" \in DOMAIN ret.lnphis[i] =>
            ret.lnphis[i].sum_term =
                SumTo(eos.N, [j \in 1..eos.N |-> ret.zs[j] * Val(eos.a_alpha_ijs)[i][j]])

(***************************************************************************)
(* Michelsen stability test.  K-values and corrections are powers of two,  *)
(* so that log K is exact: log2 is the logarithm in units of ln 2 and      *)
(* trivial_criteria is in units of (ln 2)^2.                               *)
(***************************************************************************)
Pow2(k) == IF k >= 0 THEN Rat(2 ^ k, 1) ELSE Rat(1, 2 ^ (-k))
log2(K) == CHOOSE k \in -(MaxLnK + MaxIter)..(MaxLnK + MaxIter) : K = Pow2(k)

\* the feed, the reference fugacities and the tolerances of a call
StabZs == <<Rat(1, 4), Rat(3, 4)>>
StabFugacitiesRef == <<Rat(1, 1), Rat(2, 1)>>
StabXtol == Rat(1, 16)
TrivialCriteria == Rat(1, 1)
StableCriteria == Rat(1, 4)
KsInitials == UNION {{<<Pow2(-k), Pow2(-k)>>, <<Pow2(k), Pow2(-k)>>} : k \in 0..MaxLnK}
CorrExps == {<<0, 0>>, <<1, 1>>, <<-1, 0>>}

\* lines 2013-2016: the trial composition before normalisation
zs_test(liq, zs, Ks) ==
    [i \in 1..Len(zs) |-> IF liq THEN RDiv(zs[i], Ks[i]) ELSE RMul(zs[i], Ks[i])]

\* the fugacities eos_test.eos_fugacities_lowest_Gibbs() can give for the trial phase:
\* those for which the corrections of this iteration are powers of two
TestFugacities(liq, fugacities_ref, sum_zs_test) ==
    {[i \in 1..Len(fugacities_ref) |->
         IF liq
         THEN RDiv(RMul(Pow2(c[i]), fugacities_ref[i]), sum_zs_test)
         ELSE RDiv(fugacities_ref[i], RMul(Pow2(c[i]), sum_zs_test))] : c \in CorrExps}

\* lines 2037-2040
Corrections(liq, fugacities_test, fugacities_ref, sum_zs_test) ==
    [i \in 1..Len(fugacities_ref) |->
        IF liq
        THEN RMul(RDiv(fugacities_test[i], fugacities_ref[i]), sum_zs_test)
        ELSE RDiv(fugacities_ref[i], RMul(fugacities_test[i], sum_zs_test))]

\* lines 2043-2044
StabErr(corrections) ==
    RSumTo(Len(corrections), [i \in 1..Len(corrections) |->
        RMul(RSub(corrections[i], ROne), RSub(corrections[i], ROne))])

\* lines 2047-2053: how iteration i (counted from 0) ends
IterationEndMutant(i, maxiter, err, xtol, fugacities_ref_phase, fugacities_phase) ==
    IF RLess(err, xtol) THEN "break"
    ELSE IF i = maxiter - 1 THEN "raise"
    ELSE "continue"
IterationEnd(i, maxiter, err, xtol, fugacities_ref_phase, fugacities_phase) ==
    IF RLess(err, xtol) THEN "break"
    ELSE IF i = maxiter - 1 /\ fugacities_ref_phase # fugacities_phase THEN "raise"
    ELSE IF i = maxiter - 1 THEN "exhausted"
    ELSE "continue"

\* lines 2081-2092
Trivial(Ks, trivial_criteria) ==
    RLess(Rat(SumTo(Len(Ks), [i \in 1..Len(Ks) |-> log2(Ks[i]) * log2(Ks[i])]), 1),
          trivial_criteria)

\* lines 2087-2088 with the comparisons of lines 2109-2126
SumCriterionMetMutant(zs_sum, stable_criteria) ==
    RLess(RAbs(RSub(zs_sum, ROne)), stable_criteria)
SumCriterionMet(zs_sum, stable_criteria) ==
    RLess(RSub(zs_sum, ROne), stable_criteria)

\* lines 2117-2126: the decision table
StableMutant(phase_failure_g, phase_failure_l, trivial_g, trivial_l, sum_g, sum_l) ==
    IF phase_failure_g \/ phase_failure_l THEN TRUE
    ELSE IF trivial_g /\ trivial_l THEN TRUE
    ELSE IF sum_g /\ trivial_l THEN TRUE
    ELSE IF trivial_g /\ sum_l THEN TRUE
    ELSE IF sum_g /\ sum_l THEN TRUE
    ELSE FALSE
Stable(phase_failure_g, phase_failure_l, trivial_g, trivial_l, sum_g, sum_l) ==
    IF phase_failure_g /\ phase_failure_l THEN TRUE
    ELSE IF trivial_g /\ trivial_l THEN TRUE
    ELSE IF sum_g /\ trivial_l THEN TRUE
    ELSE IF trivial_g /\ sum_l THEN TRUE
    ELSE IF sum_g /\ sum_l THEN TRUE
    ELSE FALSE

\* lines 2146-2149: the return of stability_Michelsen with the K-values to go on with
ReturnMutant(s, g, l, stable) ==
    [s EXCEPT !.pc = "done", !.l = Some(l), !.stable = Some(stable),
              !.Ks = IF stable THEN s.Ks_initial
                     ELSE [i \in 1..Len(s.Ks_initial) |-> RMul(g.Ks[i], g.Ks[i])]]
Return(s, g, l, stable) ==
    [s EXCEPT !.pc = "done", !.l = Some(l), !.stable = Some(stable),
              !.Ks = IF stable THEN s.Ks_initial
                     ELSE [i \in 1..Len(s.Ks_initial) |-> RMul(g.Ks[i], l.Ks[i])]]

\* lines 2077-2126 after the two trials g and l have returned
Classify(s, g, l) ==
    Return(s, g, l, Stable(g.phase_failure, l.phase_failure,
                           Trivial(g.Ks, s.trivial_criteria),
                           Trivial(l.Ks, s.trivial_criteria),
                           SumCriterionMet(g.zs_sum, s.stable_criteria),
                           SumCriterionMet(l.zs_sum, s.stable_criteria)))

\* line 2065: what a trial returns, with the number of iterations it ran
TrialResult(s, sum_zs_test, Ks, err, fugacities_phase, matched) ==
    [zs_sum |-> sum_zs_test, Ks |-> Ks,
     phase_failure |-> s.fugacities_ref_phase = fugacities_phase,
     iterations |-> s.i + 1, converged |-> RLess(err, s.xtol), ever_matched |-> matched]

\* the start of a trial: lines 2006-2011
StartTrial(s, trial) ==
    [s EXCEPT !.pc = trial, !.i = 0, !.Ks = s.Ks_initial, !.err = Unset,
              !.phase = Unset, !.ever_matched = FALSE]

\* lines 2012-2065 and 2074-2077: the state after iteration s.i of the running trial
AfterIteration(s, end, sum_zs_test, Ks, err, fugacities_phase, matched) ==
    IF end = "continue"
    THEN [s EXCEPT !.i = s.i + 1, !.Ks = Ks, !.err = Some(err),
                   !.phase = Some(fugacities_phase), !.ever_matched = matched]
    ELSE IF end = "raise"
    THEN [s EXCEPT !.pc = "raised", !.exc = "UnconvergedError", !.i = s.i + 1, !.Ks = Ks,
                   !.err = Some(err), !.phase = Some(fugacities_phase),
                   !.ever_matched = matched]
    ELSE IF s.pc = "g"
    THEN StartTrial([s EXCEPT !.g = Some(TrialResult(s, sum_zs_test, Ks, err,
                                                      fugacities_phase, matched))], "l")
    ELSE Classify(s, Val(s.g),
                  TrialResult(s, sum_zs_test, Ks, err, fugacities_phase, matched))

\* lines 2037-2053 of one iteration, given the trial sum and the trial-phase fugacities
IterationBody(s, liq, sum_zs_test, corrections, fugacities_phase) ==
    AfterIteration(s,
        IterationEnd(s.i, s.maxiter, StabErr(corrections), s.xtol,
                     s.fugacities_ref_phase, fugacities_phase),
        sum_zs_test,
        [i \in 1..Len(s.Ks) |-> RMul(s.Ks[i], corrections[i])],
        StabErr(corrections), fugacities_phase,
        s.ever_matched \/ s.fugacities_ref_phase = fugacities_phase)

(***************************************************************************)
(* SpecStab: calls of stability_Michelsen, one loop iteration per step.    *)
(***************************************************************************)
InitStab ==
    /\ eos = Construct("PR", 2, 1, 1, <<1, 1>>, <<<<0, -1>>, <<-1, 0>>>>).eos
    /\ ret = NoRet
    /\ fl = IdleFl
    /\ st = IdleSt

\* stability_Michelsen(T, P, zs, Ks_initial, maxiter, xtol, ...): up to the first iteration
\* of the vapor-like trial; with maxiter = 0 the trial's return reads an unbound local
StabilityCall ==
    /\ st.pc \in {"idle", "done", "raised"}
    /\ \E Ks_initial \in KsInitials, maxiter \in 0..MaxIter, phase \in Branches :
         st' = IF maxiter = 0
               THEN [pc |-> "raised", exc |-> "UnboundLocalError", maxiter |-> maxiter]
               ELSE [pc |-> "g", exc |-> "none", zs |-> StabZs, Ks_initial |-> Ks_initial,
                     maxiter |-> maxiter, xtol |-> StabXtol,
                     trivial_criteria |-> TrivialCriteria,
                     stable_criteria |-> StableCriteria,
                     fugacities_ref |-> StabFugacitiesRef, fugacities_ref_phase |-> phase,
                     i |-> 0, Ks |-> Ks_initial, err |-> Unset, phase |-> Unset,
                     ever_matched |-> FALSE, g |-> Unset, l |-> Unset, stable |-> Unset]
    /\ UNCHANGED <<eos, ret, fl>>

\* one iteration of stabiliy_iteration_Michelsen; the last one of the liquid-like trial
\* goes on to the classification and the return of stability_Michelsen
StabilityIterate ==
    /\ st.pc \in {"g", "l"}
    /\ \E sum_zs_test \in {RSumTo(Len(st.zs), zs_test(st.pc = "l", st.zs, st.Ks))} :
         \E fugacities_test \in TestFugacities(st.pc = "l", st.fugacities_ref, sum_zs_test) :
           \E fugacities_phase \in Branches :
             st' = IterationBody(st, st.pc = "l", sum_zs_test,
                                 Corrections(st.pc = "l", fugacities_test,
                                             st.fugacities_ref, sum_zs_test),
                                 fugacities_phase)
    /\ UNCHANGED <<eos, ret, fl>>

NextStab == StabilityCall \/ StabilityIterate

SpecStab == InitStab /\ [][NextStab]_vars

StabDone == st.pc = "done"
BothPhaseFailure == Val(st.g).phase_failure /\ Val(st.l).phase_failure
TrivialG == Trivial(Val(st.g).Ks, st.trivial_criteria)
TrivialL == Trivial(Val(st.l).Ks, st.trivial_criteria)
SumG == RLess(RSub(Val(st.g).zs_sum, ROne), st.stable_criteria)
SumL == RLess(RSub(Val(st.l).zs_sum, ROne), st.stable_criteria)
WithinG == RLess(RAbs(RSub(Val(st.g).zs_sum, ROne)), st.stable_criteria)
WithinL == RLess(RAbs(RSub(Val(st.l).zs_sum, ROne)), st.stable_criteria)

\* C5 (as claimed): stability_Michelsen reports stable if and only if each of the two
\* trials is trivial or meets the sum criterion.
C5_StableIffEachTrialPasses ==
    StabDone => (Val(st.stable) <=> ((TrivialG \/ SumG) /\ (TrivialL \/ SumL)))

\* C5 (amended): stability_Michelsen reports stable if and only if both trials ended
\* with the trial phase type equal to the reference phase type, or each of the two
\* trials is trivial or meets the sum criterion.
C5_StableDecisionTable ==
    StabDone =>
        (Val(st.stable) <=> (BothPhaseFailure \/ ((TrivialG \/ SumG) /\ (TrivialL \/ SumL))))

C5_Witness ==
    /\ StabDone
    /\ Val(st.stable)
    /\ BothPhaseFailure
    /\ ~((TrivialG \/ SumG) /\ (TrivialL \/ SumL))

\* C9 (as claimed): a trial stops at the first iteration with err < xtol or after
\* maxiter iterations; at the bound without the tolerance met the call fails exactly
\* when the trial phase type never matched the reference's in any iteration.
C9_FailsIffNeverMatched ==
    /\ (st.pc = "raised" /\ st.exc = "UnconvergedError") =>
           (st.i = st.maxiter /\ ~RLess(Val(st.err), st.xtol) /\ ~st.ever_matched)
    /\ \A t \in {"g", "l"} : (st.pc \in {"l", "done"} /\ IsSet(st[t])) =>
           /\ Val(st[t]).iterations <= st.maxiter
           /\ ~Val(st[t]).converged =>
                  (Val(st[t]).iterations = st.maxiter /\ Val(st[t]).ever_matched)

\* C9 (amended): a trial stops at the first iteration with err < xtol or after maxiter
\* iterations; at the bound without the tolerance met the call fails (UnconvergedError)
\* exactly when the trial phase type of that last iteration differs from the
\* reference's, and otherwise returns its last iterate.
C9_FailsIffLastMismatched ==
    /\ (st.pc = "raised" /\ st.exc = "UnconvergedError") =>
           /\ st.i = st.maxiter
           /\ ~RLess(Val(st.err), st.xtol)
           /\ Val(st.phase) # st.fugacities_ref_phase
    /\ (st.pc \in {"g", "l"} /\ st.i > 0) =>
           (st.i < st.maxiter /\ ~RLess(Val(st.err), st.xtol))
    /\ \A t \in {"g", "l"} : (st.pc \in {"l", "done"} /\ IsSet(st[t])) =>
           /\ Val(st[t]).iterations <= st.maxiter
           /\ ~Val(st[t]).converged =>
                  (Val(st[t]).iterations = st.maxiter /\ Val(st[t]).phase_failure)

C9_Witness ==
    /\ st.pc = "raised"
    /\ st.exc = "UnconvergedError"
    /\ st.ever_matched

\* C10 (as claimed): a trial counts as within tolerance exactly when its sum differs
\* from 1 by less than stable_criteria in absolute value.
C10_WithinToleranceTwoSided ==
    /\ (StabDone /\ ~BothPhaseFailure /\ TrivialL /\ ~TrivialG) =>
           (Val(st.stable) <=> WithinG)
    /\ (StabDone /\ ~BothPhaseFailure /\ TrivialG /\ ~TrivialL) =>
           (Val(st.stable) <=> WithinL)

\* C10 (amended): a trial counts as within tolerance exactly when its sum minus 1 is
\* less than stable_criteria; a sum below 1 by more than stable_criteria is counted as
\* within tolerance.
C10_WithinToleranceOneSided ==
    /\ (StabDone /\ ~BothPhaseFailure /\ TrivialL /\ ~TrivialG) =>
           (Val(st.stable) <=> RLess(Val(st.g).zs_sum, RAdd(ROne, st.stable_criteria)))
    /\ (StabDone /\ ~BothPhaseFailure /\ TrivialG /\ ~TrivialL) =>
           (Val(st.stable) <=> RLess(Val(st.l).zs_sum, RAdd(ROne, st.stable_criteria)))

C10_Witness ==
    /\ StabDone
    /\ ~BothPhaseFailure
    /\ TrivialL
    /\ ~TrivialG
    /\ RLess(Val(st.g).zs_sum, RSub(ROne, st.stable_criteria))
    /\ Val(st.stable)

\* C11: when stability_Michelsen reports unstable, the K-values it returns are for
\* every species the product of the final K-values of the vapor-like and of the
\* liquid-like trial, and the vapor-like trial's K-set is returned as that trial left it.
C11_UnstableKsAreProduct ==
    [][(st'.pc = "done" /\ ~Val(st'.stable)) =>
          /\ \A i \in 1..Len(st'.Ks) :
                 st'.Ks[i] = RMul(Val(st'.g).Ks[i], Val(st'.l).Ks[i])
          /\ st.pc = "l" => st'.g = st.g]_vars

C11_Witness ==
    /\ StabDone
    /\ ~Val(st.stable)
    /\ Val(st.g).Ks # Val(st.l).Ks
    /\ st.Ks # st.Ks_initial

(***************************************************************************)
(* SpecRepeat: a call of a_alpha_and_derivatives at the instance's own T,   *)
(* other calls on the instance, and the same call again.                   *)
(***************************************************************************)
\* the pairwise matrix and the derivative tensors an instance holds
Tensors(s) == <<s.a_alpha_ijs, s.da_alpha_dT_ijs, s.d2a_alpha_dT2_ijs>>

\* the pairwise matrix is held by the instance
PairsCached(s) == IsSet(s.a_alpha_ijs)

InitRepeat == InitCache

\* a_alpha_and_derivatives(self.T, full, quick, pure_a_alphas): the call to be repeated
FirstCall ==
    /\ ret.op = "none"
    /\ \E full \in BOOL, quick \in BOOL, pure_a_alphas \in BOOL :
         \E r \in {a_alpha_and_derivatives_py(eos, eos.T, full, quick, pure_a_alphas)} :
           /\ eos' = r.eos
           /\ ret' = [op |-> "first", full |-> full, quick |-> quick,
                      pure_a_alphas |-> pure_a_alphas, exc |-> r.exc, value |-> r.value,
                      tensors |-> Tensors(r.eos), cached |-> PairsCached(eos),
                      recomputed |-> r.recomputed]
    /\ UNCHANGED <<fl, st>>

\* any other call of a_alpha_and_derivatives in between
CallBetween ==
    /\ ret.op = "first"
    /\ \E T \in Temps, full \in BOOL, quick \in BOOL, pure_a_alphas \in BOOL :
         eos' = a_alpha_and_derivatives_py(eos, T, full, quick, pure_a_alphas).eos
    /\ UNCHANGED <<ret, fl, st>>

\* an evaluation of _mechanical_critical_point_f_jac in between
CriticalPointBetween ==
    /\ ret.op = "first"
    /\ \E T \in Temps :
         eos' = a_alpha_and_derivatives_py(delete_caches(eos), T, TRUE, TRUE, TRUE).eos
    /\ UNCHANGED <<ret, fl, st>>

\* the first call once more, with the same temperature and flags
SecondCall ==
    /\ ret.op = "first"
    /\ \E r \in {a_alpha_and_derivatives_py(eos, eos.T, ret.full, ret.quick,
                                            ret.pure_a_alphas)} :
         /\ eos' = r.eos
         /\ ret' = [op |-> "second", first |-> ret, exc |-> r.exc, value |-> r.value,
                    tensors |-> Tensors(r.eos), quick |-> ret.quick,
                    cached |-> PairsCached(eos), recomputed |-> r.recomputed]
    /\ UNCHANGED <<fl, st>>

NextRepeat == FirstCall \/ CallBetween \/ CriticalPointBetween \/ SecondCall

SpecRepeat == InitRepeat /\ [][NextRepeat]_vars

\* C12: two calls of a_alpha_and_derivatives on the same instance at the instance's T
\* with the same flags return the same values and leave the same a_alpha_ijs and
\* derivative tensors on the instance, whatever calls were made in between.
C12_RepeatedCallIdentical ==
    ret.op = "second" =>
        /\ ret.exc = ret.first.exc
        /\ ret.value = ret.first.value
        /\ ret.tensors = ret.first.tensors


ZeroAlpha(s) == \E i \in 1..s.N : Val(s.a_alphas)[i] = 0

\* C14: a call of a_alpha_and_derivatives whose pure-species alphas include an exact
\* zero completes without an exception, for every N and for full = True and False.
C14_ZeroAlphaCompletes ==
    [][(ret'.op = "a_alpha_and_derivatives" /\ ZeroAlpha(eos')) => ret'.exc = "none"]_vars


\* the state and parameter attributes of an instance, and the pure-EOS attributes
\* that an instance does not have after construction
FrameOf(s) ==
    <<s.T, s.P, s.V, s.zs, s.kijs, s.bs, s.b, s.a_alpha, s.Tc, s.Pc, s.omega, s.a>>

\* C15: no method called on an instance after construction changes its T, P, V, zs, kijs,
\* bs, b or a_alpha, and none leaves a new non-cache attribute behind on it.
C15_ImmutableAfterConstruction ==
    [][ret'.op # "to_TP_zs_fast" => FrameOf(eos') = FrameOf(eos)]_vars


(***************************************************************************)
(* SpecSym: the pure-Python and the numpy evaluation of the pairwise       *)
(* matrices.  numpy floats are exact fractions n/d; x/0 is inf (d = 0,     *)
(* n = +-1) or nan (0/0), as numpy returns them instead of raising.        *)
(***************************************************************************)
FNaN == [n |-> 0, d |-> 0]
FInf(sg) == [n |-> sg, d |-> 0]
FOf(x) == [n |-> x, d |-> 1]
Sign(x) == IF x < 0 THEN -1 ELSE IF x > 0 THEN 1 ELSE 0
FDiv(x, y) ==
    IF y # 0 THEN Rat(x, y) ELSE IF x = 0 THEN FNaN ELSE FInf(Sign(x))
FMul(a, b) ==
    IF a.d # 0 /\ b.d # 0 THEN RMul(a, b)
    ELSE IF a.n = 0 \/ b.n = 0 THEN FNaN
    ELSE FInf(Sign(a.n) * Sign(b.n))
FAdd(a, b) ==
    IF a.d # 0 /\ b.d # 0 THEN RAdd(a, b)
    ELSE IF a = FNaN \/ b = FNaN THEN FNaN
    ELSE IF a.d # 0 THEN b
    ELSE IF b.d # 0 THEN a
    ELSE IF a = b THEN a ELSE FNaN

RECURSIVE FSumTo(_, _)
FSumTo(n, f) == IF n = 0 THEN RZero ELSE FAdd(f[n], FSumTo(n - 1, f))

\* lines 804-838 on instance s1, whose a_alphas, da_alpha_dTs, d2a_alpha_dT2s are the
\* arguments of the call
a_alpha_and_derivatives_numpy(s1, full) ==
    LET N == s1.N
        a_alphas == Val(s1.a_alphas)
        da_alpha_dTs == Val(s1.da_alpha_dTs)
        d2a_alpha_dT2s == Val(s1.d2a_alpha_dT2s)
        one_minus_kijs(i, j) == 1 - s1.kijs[i][j]
        x0(i, j) == a_alphas[i] * a_alphas[j]
        x0_05(i, j) == Sqrt(x0(i, j))
        a_alpha_ijs == [i \in 1..N |-> [j \in 1..N |-> one_minus_kijs(i, j) * x0_05(i, j)]]
        z_products(i, j) == s1.zs[i] * s1.zs[j]
        a_alpha == SumTo(N, [i \in 1..N |-> SumTo(N, [j \in 1..N |->
                       a_alpha_ijs[i][j] * z_products(j, i)])])
        term0(i, j) == a_alphas[j] * da_alpha_dTs[i]
        term7(i, j) == FDiv(one_minus_kijs(i, j), x0_05(i, j))
        term1(i, j) == FMul(FDiv(-x0_05(i, j), x0(i, j)), FOf(one_minus_kijs(i, j)))
        term2(i, j) == a_alphas[i] * da_alpha_dTs[j]
        main3(i, j) == FMul(FDiv(da_alpha_dTs[j], 2 * a_alphas[j]), FOf(term2(i, j)))
        main4(i, j) == FOf(-(a_alphas[i] * d2a_alpha_dT2s[j]))
        main6(i, j) == Rat(-(da_alpha_dTs[i] * da_alpha_dTs[j]), 2)
        da_alpha_dT == FSumTo(N, [i \in 1..N |-> FSumTo(N, [j \in 1..N |->
                           FMul(FOf(z_products(i, j)),
                                FMul(term7(i, j), FOf(term0(i, j))))])])
        d2a_alpha_dT2 == FSumTo(N, [i \in 1..N |-> FSumTo(N, [j \in 1..N |->
                             FMul(FOf(z_products(i, j)),
                                  FMul(term1(i, j),
                                       FAdd(main3(i, j),
                                            FAdd(main4(i, j), main6(i, j)))))])])
    IN  IF full
        THEN [eos |-> [s1 EXCEPT !.a_alpha_ijs = Some(a_alpha_ijs),
                                 !.da_alpha_dT_ijs = Some([i \in 1..N |-> [j \in 1..N |->
                                     FMul(Rat(1, 2),
                                          FMul(term7(i, j),
                                               FOf(term2(i, j) + term0(i, j))))]])],
              exc |-> "none", value |-> <<a_alpha, da_alpha_dT, d2a_alpha_dT2>>]
        ELSE [eos |-> [s1 EXCEPT !.a_alpha_ijs = Some(a_alpha_ijs)],
              exc |-> "none", value |-> <<a_alpha>>]

InitSym == InitCache

\* a_alpha_and_derivatives evaluated by a_alpha_and_derivatives_py
PyCall ==
    /\ \E T \in Temps, full \in BOOL, quick \in BOOL, pure_a_alphas \in BOOL :
         \E r \in {a_alpha_and_derivatives_py(eos, T, full, quick, pure_a_alphas)} :
           /\ eos' = r.eos
           /\ ret' = [op |-> "a_alpha_and_derivatives_py", exc |-> r.exc, full |-> full]
    /\ UNCHANGED <<fl, st>>

\* a_alpha_and_derivatives evaluated by a_alpha_and_derivatives_numpy, the branch of
\* lines 642-643 (N > 20 outside PyPy); the numpy method itself does not read N
NumpyCall ==
    /\ \E T \in Temps, full \in BOOL, pure_a_alphas \in BOOL :
         \E r \in {a_alpha_and_derivatives_numpy(
                       IF pure_a_alphas
                       THEN py_store_pure(eos, a_alpha_and_derivatives_vectorized(eos.N, T))
                       ELSE eos, full)} :
           /\ eos' = r.eos
           /\ ret' = [op |-> "a_alpha_and_derivatives_numpy", exc |-> r.exc, full |-> full]
    /\ UNCHANGED <<fl, st>>

NextSym == PyCall \/ NumpyCall

SpecSym == InitSym /\ [][NextSym]_vars

\* a stored matrix (a list of rows, [] included) equals its transpose
Symmetric(M) ==
    \A i \in 1..Len(M) : \A j \in 1..Len(M) : M[i][j] = M[j][i]

Ps == 1..2
Vs == 1..2
Opt(S) == {Unset} \cup {Some(v) : v \in S}

\* self.__class__(T=T, P=P, V=V, zs=zs, ...)
NewObject(T, P, V, zs) == [is_self |-> FALSE, T |-> T, P |-> P, V |-> V, zs |-> zs]
\* return self
Self(s) == [is_self |-> TRUE, T |-> Some(s.T), P |-> Some(s.P), V |-> s.V, zs |-> s.zs]

to_TP_zsMutant(s, T, P, zs) ==
    IF T # s.T /\ P # s.P /\ zs # s.zs
    THEN NewObject(Some(T), Some(P), Unset, zs)
    ELSE Self(s)

to_TP_zs(s, T, P, zs) ==
    IF T # s.T \/ P # s.P \/ zs # s.zs
    THEN NewObject(Some(T), Some(P), Unset, zs)
    ELSE Self(s)

to_TV_zs(s, T, V, zs) ==
    IF T = s.T /\ Some(V) = s.V /\ zs = s.zs
    THEN Self(s)
    ELSE NewObject(Some(T), Unset, Some(V), zs)

to_PV_zs(s, P, V, zs) ==
    IF P = s.P /\ Some(V) = s.V /\ zs = s.zs
    THEN Self(s)
    ELSE NewObject(Unset, Some(P), Some(V), zs)

to_dispatch(s, zs, T, P, V) ==
    IF IsSet(T) /\ IsSet(P) THEN to_TP_zs(s, Val(T), Val(P), zs)
    ELSE IF IsSet(T) /\ IsSet(V) THEN to_TV_zs(s, Val(T), Val(V), zs)
    ELSE IF IsSet(P) /\ IsSet(V) THEN to_PV_zs(s, Val(P), Val(V), zs)
    ELSE NewObject(T, P, V, zs)

to(s, zs, T, P, V) == to_dispatch(s, IF IsSet(zs) THEN Val(zs) ELSE s.zs, T, P, V)
to_TP(s, T, P) == to_TP_zs(s, T, P, s.zs)
to_TV(s, T, V) == to_TV_zs(s, T, V, s.zs)
to_PV(s, P, V) == to_PV_zs(s, P, V, s.zs)

\* instances specified by (T, P), whose V is None, and by (T, V) or (P, V), whose third
\* state variable solve() has set
InitTo ==
    /\ \E N \in 1..MaxN, T \in Temps, P \in Ps, V \in Opt(Vs) :
         \E zs \in Compositions(N), kijs \in KijsOf(N) :
          \E r \in {Construct("PR", N, T, P, zs, kijs)} :
            /\ r.exc = "none"
            /\ eos = [r.eos EXCEPT !.V = V]
    /\ ret = NoRet
    /\ fl = IdleFl
    /\ st = IdleSt

To ==
    /\ \E zs \in Opt(Compositions(eos.N)), T \in Opt(Temps), P \in Opt(Ps), V \in Opt(Vs) :
         ret' = [op |-> "to", zs |-> zs, T |-> T, P |-> P, V |-> V,
                 obj |-> to(eos, zs, T, P, V)]
    /\ UNCHANGED <<eos, fl, st>>

ToTP ==
    /\ \E T \in Temps, P \in Ps :
         ret' = [op |-> "to_TP", zs |-> Unset, T |-> Some(T), P |-> Some(P), V |-> Unset,
                 obj |-> to_TP(eos, T, P)]
    /\ UNCHANGED <<eos, fl, st>>

ToTV ==
    /\ \E T \in Temps, V \in Vs :
         ret' = [op |-> "to_TV", zs |-> Unset, T |-> Some(T), P |-> Unset, V |-> Some(V),
                 obj |-> to_TV(eos, T, V)]
    /\ UNCHANGED <<eos, fl, st>>

ToPV ==
    /\ \E P \in Ps, V \in Vs :
         ret' = [op |-> "to_PV", zs |-> Unset, T |-> Unset, P |-> Some(P), V |-> Some(V),
                 obj |-> to_PV(eos, P, V)]
    /\ UNCHANGED <<eos, fl, st>>

NextTo == To \/ ToTP \/ ToTV \/ ToPV

SpecTo == InitTo /\ [][NextTo]_vars

\* exactly two of T, P, V were given to the call recorded in r
TwoSpecsGiven(r) ==
    Cardinality({x \in {"T", "P", "V"} : IsSet(r[x])}) = 2

\* every given spec and the composition of r equal those of instance s
SpecsEqual(r, s) ==
    /\ IsSet(r.T) => Val(r.T) = s.T
    /\ IsSet(r.P) => Val(r.P) = s.P
    /\ IsSet(r.V) => r.V = s.V
    /\ IsSet(r.zs) => Val(r.zs) = s.zs

\* C17: to, to_TP, to_TV and to_PV return the very same object, unchanged, when the two
\* given specs and the composition equal the current object's; otherwise they return a
\* newly constructed instance for the given specs and leave the current object unchanged.
C17_SameObjectIffSameSpecs ==
    [][(ret'.op \in {"to", "to_TP", "to_TV", "to_PV"} /\ TwoSpecsGiven(ret')) =>
          /\ eos' = eos
          /\ ret'.obj.is_self <=> SpecsEqual(ret', eos)
          /\ ~ret'.obj.is_self =>
                /\ ret'.obj.T = ret'.T
                /\ ret'.obj.P = ret'.P
                /\ ret'.obj.V = ret'.V
                /\ ret'.obj.zs = (IF IsSet(ret'.zs) THEN Val(ret'.zs) ELSE eos.zs)]_vars

C17_Witness ==
    /\ ret.op = "to_TV"
    /\ ret.obj.is_self
    /\ IsSet(eos.V)


(***************************************************************************)
(* SpecSSInit: sequential_substitution_VL from the call to the sub-state   *)
(* evaluations of its first iteration.  Wilson_K_value and                 *)
(* flash_inner_loop are callees outside the class: the Wilson estimate is  *)
(* a fixed K-set, and each Rachford-Rice call either raises ValueError or  *)
(* gives a vapor fraction and two compositions.                            *)
(***************************************************************************)
WilsonKs == <<Rat(2, 1), Rat(1, 2)>>
KsInitialsVL == {<<Rat(3, 1), Rat(1, 3)>>}
KsExtras == {<<<<Rat(4, 1), Rat(1, 4)>>>>}
RRFailed == [err |-> TRUE]
RROutcomes ==
    {RRFailed} \cup {[err |-> FALSE, V_over_F |-> vf, xs |-> x, ys |-> y] :
                       vf \in VFs, x \in TrialComps, y \in TrialComps}

\* lines 1797-1806: the Rachford-Rice call on Ks gave o1; on ValueError the K-sets of
\* Ks_extra are tried (o2 is what the call on the extra K-set gives)
SSInitFlash(wilson, Ks, Ks_extra, o1, o2) ==
    IF ~o1.err
    THEN [exc |-> {"none"}, wilson |-> wilson, rr_calls |-> <<Ks>>,
          xs |-> Some(o1.xs), ys |-> Some(o1.ys), V_over_F |-> Some(o1.V_over_F)]
    ELSE IF IsSet(Ks_extra) /\ ~o2.err
    THEN [exc |-> {"none"}, wilson |-> wilson, rr_calls |-> <<Ks, Val(Ks_extra)[1]>>,
          xs |-> Some(o2.xs), ys |-> Some(o2.ys), V_over_F |-> Some(o2.V_over_F)]
    ELSE [exc |-> {"ValueError", "UnboundLocalError"}, wilson |-> wilson,
          rr_calls |-> IF IsSet(Ks_extra) THEN <<Ks, Val(Ks_extra)[1]>> ELSE <<Ks>>,
          xs |-> Unset, ys |-> Unset, V_over_F |-> Unset]

SSInitMutant(xs, ys, Ks_initial, Ks_extra, o1, o2) ==
    IF IsSet(xs) /\ IsSet(ys)
    THEN [exc |-> {"none"}, wilson |-> FALSE, rr_calls |-> << >>,
          xs |-> xs, ys |-> ys, V_over_F |-> Unset]
    ELSE SSInitFlash(TRUE, WilsonKs, Ks_extra, o1, o2)

\* lines 1786-1808: everything before the loop.  exc is the set of outcomes of
\* raise(e): the name e is still bound after the except clause in Python 2 and
\* unbound in Python 3.
SSInit(xs, ys, Ks_initial, Ks_extra, o1, o2) ==
    IF IsSet(xs) /\ IsSet(ys)
    THEN [exc |-> {"none"}, wilson |-> FALSE, rr_calls |-> << >>,
          xs |-> xs, ys |-> ys, V_over_F |-> Unset]
    ELSE SSInitFlash(~IsSet(Ks_initial),
                     IF IsSet(Ks_initial) THEN Val(Ks_initial) ELSE WilsonKs,
                     Ks_extra, o1, o2)

InitSSInit == InitFlash

\* the call and the code before the loop
SSInitCall ==
    /\ fl.pc = "idle"
    /\ \E xs \in Opt(TrialComps), ys \in Opt(TrialComps), maxiter \in 0..MaxIter,
          Ks_initial \in Opt(KsInitialsVL), Ks_extra \in Opt(KsExtras),
          o1 \in RROutcomes, o2 \in RROutcomes :
         \E r \in {SSInit(xs, ys, Ks_initial, Ks_extra, o1, o2)} :
           \E exc \in r.exc :
             fl' = [pc |-> IF exc = "none" THEN "before" ELSE "raised", exc |-> exc,
                    args |-> [xs |-> xs, ys |-> ys, Ks_initial |-> Ks_initial,
                              maxiter |-> maxiter],
                    wilson |-> r.wilson, rr_calls |-> r.rr_calls,
                    xs |-> r.xs, ys |-> r.ys, V_over_F |-> r.V_over_F,
                    eos_g |-> Unset, eos_l |-> Unset]
    /\ UNCHANGED <<eos, ret, st>>

\* lines 1810-1817: with no iteration to run the code after the loop reads unbound
\* names; otherwise the first iteration builds the two sub-states
SSFirstEvaluation ==
    /\ fl.pc = "before"
    /\ fl' = IF fl.args.maxiter = 0
             THEN [fl EXCEPT !.pc = "raised", !.exc = "UnboundLocalError"]
             ELSE [fl EXCEPT !.pc = "evaluated",
                             !.eos_g = Some([zs |-> Val(fl.ys)]),
                             !.eos_l = Some([zs |-> Val(fl.xs)])]
    /\ UNCHANGED <<eos, ret, st>>

NextSSInit == SSInitCall \/ SSFirstEvaluation

SpecSSInit == InitSSInit /\ [][NextSSInit]_vars

\* both trial compositions were given to the call
BothSupplied == IsSet(fl.args.xs) /\ IsSet(fl.args.ys)

\* C18: when both xs and ys are given, sequential_substitution_VL makes neither the
\* Wilson estimate nor the initial Rachford-Rice solve and its first iteration evaluates
\* the sub-states at the given xs and ys; otherwise the Rachford-Rice solve is made, first
\* on Ks_initial if that is given and on the Wilson estimate if not.
C18_InitOnlyWithoutTrialCompositions ==
    fl.pc # "idle" =>
        IF BothSupplied
        THEN /\ ~fl.wilson
             /\ fl.rr_calls = << >>
             /\ fl.pc = "evaluated" =>
                    /\ Val(fl.eos_l).zs = Val(fl.args.xs)
                    /\ Val(fl.eos_g).zs = Val(fl.args.ys)
        ELSE /\ Len(fl.rr_calls) >= 1
             /\ fl.wilson <=> ~IsSet(fl.args.Ks_initial)
             /\ fl.rr_calls[1] = (IF IsSet(fl.args.Ks_initial)
                                  THEN Val(fl.args.Ks_initial) ELSE WilsonKs)

C18_Witness ==
    /\ fl.pc = "evaluated"
    /\ ~BothSupplied
    /\ IsSet(fl.args.xs)
    /\ IsSet(fl.args.Ks_initial)
    /\ ~fl.wilson
    /\ Val(fl.eos_l).zs # Val(fl.args.xs)


\* composition c is what the degeneracy guard makes of the Rachford-Rice result r
Guarded(c, r) ==
    /\ \A i \in 1..Len2(c) : ~RLess(Frac(c, i), RZero)
    /\ IF \E i \in 1..Len2(r) : RLess(Frac(r, i), RZero)
       THEN \A i \in 1..Len2(c) :
              Frac(c, i) = RDiv(RAbs(Frac(r, i)),
                                RSumTo(Len2(r), [j \in 1..Len2(r) |-> RAbs(Frac(r, j))]))
       ELSE c = r

\* C19: in every iteration of sequential_substitution_VL the compositions carried on
\* (or returned) after the degeneracy guard have no negative entry: a Rachford-Rice
\* result with a negative entry is replaced by |v_i| / sum_j |v_j|, any other is unchanged.
C19_GuardedCompositionsNonNegative ==
    ReachedUpdate =>
        /\ Guarded(fl.xs, Val(fl.xs_rr))
        /\ Guarded(fl.ys, Val(fl.ys_rr))

C19_Witness ==
    /\ fl.pc = "returned"
    /\ \E i \in 1..Len2(Val(fl.xs_rr)) : Val(fl.xs_rr).v[i] < 0
    /\ fl.xs # Val(fl.xs_rr)
    /\ fl.ys = Val(fl.ys_rr)


(***************************************************************************)
(* SpecStabPure: stability_Michelsen(self.T, self.P, zs, ...) on a         *)
(* one-component instance at a state with a single volume root.  The       *)
(* instance carries which root solve() found (roots) and the fugacity      *)
(* fugacities() gives for it.                                              *)
(***************************************************************************)
PureFugacities == {<<Pow2(0)>>, <<Pow2(1)>>}
PureZs == {<<Pow2(k)>> : k \in -1..1}
PureKsInitials == {<<Pow2(k)>> : k \in -MaxLnK..MaxLnK}

\* lines 2017-2018: the normalised trial composition
zs_test_normalized(zs_t, sum_zs_test) ==
    [i \in 1..Len(zs_t) |-> RDiv(zs_t[i], sum_zs_test)]

to_TP_zs_fast_statesMutant(s, zs) ==
    IF zs = [i \in 1..s.N |-> Rat(s.zs[i], 1)]
    THEN {[roots |-> CHOOSE r \in Branches : r # s.roots, fugacities |-> s.fugacities]}
    ELSE {[roots |-> r, fugacities |-> f] : r \in Branches, f \in PureFugacities}

\* line 2019: to_TP_zs_fast(T, P, zs) at the instance's own T and P; at the instance's
\* own composition solve() finds the root it found for the instance
to_TP_zs_fast_states(s, zs) ==
    IF zs = [i \in 1..s.N |-> Rat(s.zs[i], 1)]
    THEN {[roots |-> s.roots, fugacities |-> s.fugacities]}
    ELSE {[roots |-> r, fugacities |-> f] : r \in Branches, f \in PureFugacities}

\* lines 1141-1153 on an object with one root: its fugacities and the root's label
eos_fugacities_lowest_Gibbs(s) == [fugacities |-> s.fugacities, phase |-> s.roots]

InitStabPure ==
    /\ \E T \in Temps, roots \in Branches, fugacities \in PureFugacities :
         eos = Construct("PR", 1, T, 1, <<1>>, <<<<0>>>>).eos
               @@ [roots |-> roots, fugacities |-> fugacities]
    /\ ret = NoRet
    /\ fl = IdleFl
    /\ st = IdleSt

\* the call up to the first iteration of the vapor-like trial
StabilityCallPure ==
    /\ st.pc \in {"idle", "done", "raised"}
    /\ \E zs \in PureZs, Ks_initial \in PureKsInitials, maxiter \in 0..MaxIter :
        \E ref \in {eos_fugacities_lowest_Gibbs(eos)} :
         st' = IF maxiter = 0
               THEN [pc |-> "raised", exc |-> "UnboundLocalError", maxiter |-> maxiter]
               ELSE [pc |-> "g", exc |-> "none", zs |-> zs, Ks_initial |-> Ks_initial,
                     maxiter |-> maxiter, xtol |-> StabXtol,
                     trivial_criteria |-> TrivialCriteria,
                     stable_criteria |-> StableCriteria,
                     fugacities_ref |-> ref.fugacities,
                     fugacities_ref_phase |-> ref.phase,
                     i |-> 0, Ks |-> Ks_initial, err |-> Unset, phase |-> Unset,
                     ever_matched |-> FALSE, g |-> Unset, l |-> Unset, stable |-> Unset]
    /\ UNCHANGED <<eos, ret, fl>>

\* one iteration of stabiliy_iteration_Michelsen on the one-component instance
StabilityIteratePure ==
    /\ st.pc \in {"g", "l"}
    /\ \E zs_t \in {zs_test(st.pc = "l", st.zs, st.Ks)} :
        \E sum_zs_test \in {RSumTo(Len(zs_t), zs_t)} :
         \E eos_test \in to_TP_zs_fast_states(eos, zs_test_normalized(zs_t, sum_zs_test)) :
          \E test \in {eos_fugacities_lowest_Gibbs(eos_test)} :
             st' = IterationBody(st, st.pc = "l", sum_zs_test,
                                 Corrections(st.pc = "l", test.fugacities,
                                             st.fugacities_ref, sum_zs_test),
                                 test.phase)
    /\ UNCHANGED <<eos, ret, fl>>

NextStabPure == StabilityCallPure \/ StabilityIteratePure

SpecStabPure == InitStabPure /\ [][NextStabPure]_vars

\* C20: on a one-component instance at a single-root (supercritical) state,
\* stability_Michelsen never ends with the non-convergence error, and for every
\* composition value and initial K-value it returns with stable = True.
C20_PureSupercriticalStable ==
    st.pc \in {"done", "raised"} =>
        /\ st.exc # "UnconvergedError"
        /\ st.maxiter >= 1 => st.pc = "done"
        /\ st.pc = "done" => Val(st.stable)

C20_Witness ==
    /\ st.pc = "done"
    /\ Val(st.stable)
    /\ st.maxiter = 1
    /\ st.zs # <<ROne>>
    /\ st.Ks_initial # <<ROne>>
    /\ ~Val(st.g).converged
    /\ ~TrivialG
    /\ ~SumG

(***************************************************************************)
(* The family-specific scalars b, delta and epsilon: every family's         *)
(* __init__ computes them before solve(), and to_TP_zs_fast recomputes them *)
(* for the new object in the family's _fast_init_specific.  An attribute a  *)
(* family never assigns (delta or epsilon of the base cubic) is Unset: both *)
(* objects are of the same class and read the same class attribute.         *)
(* Translated families carry the untranslated b0s and the translations cs.  *)
(***************************************************************************)
ScalarFamilies == {"IG", "RK", "PR", "PPJP", "SRK", "SRKTC", "VDW"}
b0sOf(N) == [i \in 1..N |-> i + 1]
CsOf(N) == {[i \in 1..N |-> 0], [i \in 1..N |-> i - 2]}
Dot(N, xs, zs) == SumTo(N, [i \in 1..N |-> xs[i] * zs[i]])

\* the scalar assignments of the family's __init__ (IGMIX 5632-5633, RKMIX 5803-5808,
\* PRMIX 6113-6121, PRMIXTranslatedPPJP 7332-7351, SRKMIX 7551-7554,
\* SRKMIXTranslatedConsistent 8089-8115, VDWMIX 8467-8469)
init_specific(family, N, zs, cs) ==
    CASE family = "IG" ->
           [bs |-> [i \in 1..N |-> 0], b |-> 0, delta |-> Unset, epsilon |-> Unset,
            b0s |-> Unset, cs |-> Unset, c |-> Unset]
      [] family \in {"RK", "SRK"} ->
           [bs |-> bsOf(N), b |-> Dot(N, bsOf(N), zs),
            delta |-> Some(Dot(N, bsOf(N), zs)), epsilon |-> Unset,
            b0s |-> Unset, cs |-> Unset, c |-> Unset]
      [] family = "PR" ->
           [bs |-> bsOf(N), b |-> Dot(N, bsOf(N), zs),
            delta |-> Some(2 * Dot(N, bsOf(N), zs)),
            epsilon |-> Some(-(Dot(N, bsOf(N), zs) * Dot(N, bsOf(N), zs))),
            b0s |-> Unset, cs |-> Unset, c |-> Unset]
      [] family = "PPJP" ->
           [bs |-> [i \in 1..N |-> b0sOf(N)[i] - cs[i]],
            b |-> Dot(N, b0sOf(N), zs) - Dot(N, cs, zs),
            delta |-> Some(2 * (Dot(N, cs, zs) + Dot(N, b0sOf(N), zs))),
            epsilon |-> Some(-(Dot(N, b0sOf(N), zs) * Dot(N, b0sOf(N), zs))
                             + Dot(N, cs, zs) * (Dot(N, cs, zs) + Dot(N, b0sOf(N), zs)
                                                 + Dot(N, b0sOf(N), zs))),
            b0s |-> Some(b0sOf(N)), cs |-> Some(cs), c |-> Some(Dot(N, cs, zs))]
      [] family = "SRKTC" ->
           [bs |-> [i \in 1..N |-> b0sOf(N)[i] - cs[i]],
            b |-> Dot(N, b0sOf(N), zs) - Dot(N, cs, zs),
            delta |-> Some(Dot(N, cs, zs) + Dot(N, cs, zs) + Dot(N, b0sOf(N), zs)),
            epsilon |-> Some(Dot(N, cs, zs) * (Dot(N, b0sOf(N), zs) + Dot(N, cs, zs))),
            b0s |-> Some(b0sOf(N)), cs |-> Some(cs), c |-> Some(Dot(N, cs, zs))]
      [] family = "VDW" ->
           [bs |-> bsOf(N), b |-> Dot(N, bsOf(N), zs), delta |-> Unset, epsilon |-> Unset,
            b0s |-> Unset, cs |-> Unset, c |-> Unset]

\* a variant of _fast_init_specific in which the translated PR family runs the
\* method it would inherit from PRMIX
fast_init_specificMutant(new, other) ==
    CASE new.family = "IG" ->
           [bs |-> other.bs, b |-> other.b, delta |-> Unset, epsilon |-> Unset,
            b0s |-> Unset, cs |-> Unset, c |-> Unset]
      [] new.family \in {"RK", "SRK"} ->
           [bs |-> other.bs, b |-> Dot(new.N, other.bs, new.zs),
            delta |-> Some(Dot(new.N, other.bs, new.zs)), epsilon |-> Unset,
            b0s |-> Unset, cs |-> Unset, c |-> Unset]
      [] new.family = "PR" ->
           [bs |-> other.bs, b |-> Dot(new.N, other.bs, new.zs),
            delta |-> Some(2 * Dot(new.N, other.bs, new.zs)),
            epsilon |-> Some(-(Dot(new.N, other.bs, new.zs) * Dot(new.N, other.bs, new.zs))),
            b0s |-> Unset, cs |-> Unset, c |-> Unset]
      [] new.family = "PPJP" ->
           [bs |-> other.bs, b |-> Dot(new.N, other.bs, new.zs),
            delta |-> Some(2 * Dot(new.N, other.bs, new.zs)),
            epsilon |-> Some(-(Dot(new.N, other.bs, new.zs) * Dot(new.N, other.bs, new.zs))),
            b0s |-> other.b0s, cs |-> other.cs,
            c |-> Some(Dot(new.N, Val(other.cs), new.zs))]
      [] new.family = "SRKTC" ->
           [bs |-> other.bs,
            b |-> Dot(new.N, Val(other.b0s), new.zs) - Dot(new.N, Val(other.cs), new.zs),
            delta |-> Some(Dot(new.N, Val(other.cs), new.zs)
                           + Dot(new.N, Val(other.cs), new.zs)
                           + Dot(new.N, Val(other.b0s), new.zs)),
            epsilon |-> Some(Dot(new.N, Val(other.cs), new.zs)
                             * (Dot(new.N, Val(other.b0s), new.zs)
                                + Dot(new.N, Val(other.cs), new.zs))),
            b0s |-> other.b0s, cs |-> other.cs,
            c |-> Some(Dot(new.N, Val(other.cs), new.zs))]
      [] new.family = "VDW" ->
           [bs |-> other.bs, b |-> Dot(new.N, other.bs, new.zs),
            delta |-> Unset, epsilon |-> Unset,
            b0s |-> Unset, cs |-> Unset, c |-> Unset]

\* lines 279 and 297: new.bs = self.bs, then the family's _fast_init_specific(other)
\* (IGMIX 5643-5651, RKMIX 5817-5821, PRMIX 6130-6137, PRMIXTranslatedPPJP 7358-7370,
\* SRKMIX 7561-7564, SRKMIXTranslatedConsistent 8122-8136, VDWMIX 8477-8478)
fast_init_specific(new, other) ==
    CASE new.family = "IG" ->
           [bs |-> other.bs, b |-> other.b, delta |-> Unset, epsilon |-> Unset,
            b0s |-> Unset, cs |-> Unset, c |-> Unset]
      [] new.family \in {"RK", "SRK"} ->
           [bs |-> other.bs, b |-> Dot(new.N, other.bs, new.zs),
            delta |-> Some(Dot(new.N, other.bs, new.zs)), epsilon |-> Unset,
            b0s |-> Unset, cs |-> Unset, c |-> Unset]
      [] new.family = "PR" ->
           [bs |-> other.bs, b |-> Dot(new.N, other.bs, new.zs),
            delta |-> Some(2 * Dot(new.N, other.bs, new.zs)),
            epsilon |-> Some(-(Dot(new.N, other.bs, new.zs) * Dot(new.N, other.bs, new.zs))),
            b0s |-> Unset, cs |-> Unset, c |-> Unset]
      [] new.family = "PPJP" ->
           [bs |-> other.bs,
            b |-> Dot(new.N, Val(other.b0s), new.zs) - Dot(new.N, Val(other.cs), new.zs),
            delta |-> Some(2 * (Dot(new.N, Val(other.cs), new.zs)
                                + Dot(new.N, Val(other.b0s), new.zs))),
            epsilon |-> Some(-(Dot(new.N, Val(other.b0s), new.zs)
                               * Dot(new.N, Val(other.b0s), new.zs))
                             + Dot(new.N, Val(other.cs), new.zs)
                               * (Dot(new.N, Val(other.cs), new.zs)
                                  + Dot(new.N, Val(other.b0s), new.zs)
                                  + Dot(new.N, Val(other.b0s), new.zs))),
            b0s |-> other.b0s, cs |-> other.cs,
            c |-> Some(Dot(new.N, Val(other.cs), new.zs))]
      [] new.family = "SRKTC" ->
           [bs |-> other.bs,
            b |-> Dot(new.N, Val(other.b0s), new.zs) - Dot(new.N, Val(other.cs), new.zs),
            delta |-> Some(Dot(new.N, Val(other.cs), new.zs)
                           + Dot(new.N, Val(other.cs), new.zs)
                           + Dot(new.N, Val(other.b0s), new.zs)),
            epsilon |-> Some(Dot(new.N, Val(other.cs), new.zs)
                             * (Dot(new.N, Val(other.b0s), new.zs)
                                + Dot(new.N, Val(other.cs), new.zs))),
            b0s |-> other.b0s, cs |-> other.cs,
            c |-> Some(Dot(new.N, Val(other.cs), new.zs))]
      [] new.family = "VDW" ->
           [bs |-> other.bs, b |-> Dot(new.N, other.bs, new.zs),
            delta |-> Unset, epsilon |-> Unset,
            b0s |-> Unset, cs |-> Unset, c |-> Unset]

\* the instance of r with the family's scalars stored on it
WithScalars(r, scalars) == [r EXCEPT !.eos = scalars @@ r.eos]

\* the full constructor of a family: the scalars, then solve()
FamilyConstruct(family, N, T, P, zs, kijs, cs) ==
    WithScalars(Construct(family, N, T, P, zs, kijs), init_specific(family, N, zs, cs))

\* to_TP_zs_fast of a family: the copies, _fast_init_specific, then solve()
family_to_TP_zs_fast(s, T, P, zs, full_alphas) ==
    WithScalars(to_TP_zs_fast(s, T, P, zs, full_alphas),
                fast_init_specific([family |-> s.family, N |-> s.N, zs |-> zs], s))

(***************************************************************************)
(* SpecScalars: an instance of any family, to_TP_zs_fast calls on it, and   *)
(* the caller going on with the instance a call returned.                   *)
(***************************************************************************)
InitScalars ==
    /\ \E family \in ScalarFamilies, N \in 1..MaxN, T \in Temps, P \in Ps :
        \E zs \in Compositions(N), kijs \in KijsOf(N), cs \in CsOf(N) :
          \E r \in {FamilyConstruct(family, N, T, P, zs, kijs, cs)} :
             /\ r.exc = "none"
             /\ eos = r.eos
    /\ ret = NoRet
    /\ fl = IdleFl
    /\ st = IdleSt

ScalarsToTPzsFast ==
    /\ \E T \in Temps, P \in Ps, zs \in Compositions(eos.N), full_alphas \in BOOL :
        \E r \in {family_to_TP_zs_fast(eos, T, P, zs, full_alphas)} :
          ret' = [op |-> "to_TP_zs_fast", T |-> T, P |-> P, zs |-> zs, exc |-> r.exc,
                  new |-> IF r.exc = "none" THEN Some(r.eos) ELSE Unset]
    /\ UNCHANGED <<eos, fl, st>>

ScalarsAdopt ==
    /\ ret.op = "to_TP_zs_fast"
    /\ IsSet(ret.new)
    /\ eos' = Val(ret.new)
    /\ ret' = NoRet
    /\ UNCHANGED <<fl, st>>

NextScalars == ScalarsToTPzsFast \/ ScalarsAdopt

SpecScalars == InitScalars /\ [][NextScalars]_vars

ScalarsOf(s) == <<s.b, s.delta, s.epsilon>>
KwargsCs(s) == IF IsSet(s.cs) THEN Val(s.cs) ELSE [i \in 1..s.N |-> 0]

\* C21: the instance to_TP_zs_fast(T, P, zs) returns has the b, delta and epsilon of
\* an instance the full constructor builds with the same composition and per-species
\* constants, at whatever T and P that constructor is called.
C21_FastInitMatchesConstructor ==
    (ret.op = "to_TP_zs_fast" /\ IsSet(ret.new)) =>
        \A T \in Temps, P \in Ps :
            \A full \in {FamilyConstruct(eos.family, eos.N, T, P, ret.zs, eos.kijs, KwargsCs(eos))} :
                ScalarsOf(Val(ret.new)) = ScalarsOf(full.eos)

\* a translated PR instance with a non-zero translation asked for another composition:
\* the new object has another epsilon than the instance it was made from
C21_Witness ==
    /\ ret.op = "to_TP_zs_fast"
    /\ IsSet(ret.new)
    /\ eos.family = "PPJP"
    /\ Val(eos.c) # 0
    /\ ret.zs # eos.zs
    /\ Val(ret.new).epsilon # eos.epsilon
    /\ ret.T # eos.T

(***************************************************************************)
(* SpecPure: a one-component instance (zs = [1], kijs = [[0]]) and calls of *)
(* a_alpha_and_derivatives on it, with the value each call returns.         *)
(***************************************************************************)
InitPure ==
    /\ \E T \in Temps, P \in Ps :
        \E r \in {Construct("PR", 1, T, P, <<1>>, <<<<0>>>>)} :
          /\ r.exc = "none"
          /\ eos = r.eos
    /\ ret = NoRet
    /\ fl = IdleFl
    /\ st = IdleSt

PureCall ==
    \E T \in Temps, full \in BOOL, quick \in BOOL, pure_a_alphas \in BOOL :
      \E r \in {a_alpha_and_derivatives_py(eos, T, full, quick, pure_a_alphas)} :
        /\ eos' = r.eos
        /\ ret' = [op |-> "a_alpha_and_derivatives", T |-> T, full |-> full,
                   exc |-> r.exc, recomputed |-> r.recomputed, value |-> r.value]
        /\ UNCHANGED <<fl, st>>

PureToTPzsFast ==
    \E T \in Temps, P \in Ps, full_alphas \in BOOL :
      \E r \in {to_TP_zs_fast(eos, T, P, <<1>>, full_alphas)} :
        /\ r.exc = "none"
        /\ eos' = r.eos
        /\ ret' = [op |-> "to_TP_zs_fast", T |-> T, P |-> P]
        /\ UNCHANGED <<fl, st>>

NextPure == PureCall \/ PureToTPzsFast \/ MechanicalCriticalPointFJac

SpecPure == InitPure /\ [][NextPure]_vars

\* on a one-component instance a call that forms the pairwise terms from the pure
\* values it was given returns the pure values themselves
SingleComponentIsPureWhenRecomputed ==
    (ret.op = "a_alpha_and_derivatives" /\ ret.recomputed) =>
        /\ ret.exc = "none"
        /\ eos.a_alpha_ijs = Some(<<<<Val(eos.a_alphas)[1]>>>>)
        /\ ret.value[1] = Val(eos.a_alphas)[1]
        /\ ret.full => ret.value = <<Val(eos.a_alphas)[1], Val(eos.da_alpha_dTs)[1],
                                     Val(eos.d2a_alpha_dT2s)[1]>>

\* C22: on a one-component instance (zs = [1], kijs = [[0]]) every call of the
\* mixing-rule engine returns the pure values of the temperature it was called
\* for: a_alpha_ijs is the 1x1 matrix of the pure alpha term, and a_alpha,
\* da_alpha_dT and d2a_alpha_dT2 are the pure term and its two derivatives.
C22_SingleComponentIsPure ==
    (ret.op = "a_alpha_and_derivatives") =>
        /\ ret.exc = "none"
        /\ eos.a_alpha_ijs = Some(<<<<Val(eos.a_alphas)[1]>>>>)
        /\ ret.value[1] = Val(eos.a_alphas)[1]
        /\ ret.full => ret.value = <<Val(eos.a_alphas)[1], Val(eos.da_alpha_dTs)[1],
                                     Val(eos.d2a_alpha_dT2s)[1]>>

(***************************************************************************)
(* combustion.py.  A dict is a record of its keys in insertion order and    *)
(* its values; an atoms dict is a function on the elements it names.        *)
(* Amounts are integers in units of 1/PerMole mole, so that the factors     *)
(* .25, .5 and 1.25 of combustion_products are exact.  A loop is a          *)
(* recursive operator; CHOOSE r \in {F(p) : p \in {e}} : TRUE is F(e) with  *)
(* e evaluated once.                                                        *)
(***************************************************************************)
MaxCount == 2
MaxKinds == 3
PerMole == 4
combustion_atoms == {"C", "H", "N", "O", "S", "Br", "I", "Cl", "F", "P"}
OtherAtoms == <<"Ar", "Na">>

Has(d, k) == \E i \in 1..Len(d.keys) : d.keys[i] = k
DictSet(d, k, v) ==
    IF Has(d, k)
    THEN [keys |-> d.keys, val |-> [d.val EXCEPT ![k] = v]]
    ELSE [keys |-> Append(d.keys, k), val |-> (k :> v) @@ d.val]

\* lines 101-119: the count of an element, 0 when the dict does not name it
AtomCount(atoms, a) == IF a \in DOMAIN atoms THEN atoms[a] ELSE 0

\* lines 138-140: the elements outside combustion_atoms become products as they are
\* (an atoms dict of the model names at most one such element)
RECURSIVE PureElements(_, _, _)
PureElements(products, atoms, i) ==
    IF i > Len(OtherAtoms) THEN products
    ELSE PureElements(IF OtherAtoms[i] \in DOMAIN atoms
                      THEN DictSet(products, OtherAtoms[i], PerMole * atoms[OtherAtoms[i]])
                      ELSE products,
                      atoms, i + 1)

\* a variant of combustion_products whose water forgets the hydrogen bound in HF
combustion_productsMutant(atoms) ==
    PureElements(
        [keys |-> <<"CO2", "Br2", "I2", "HCl", "HF", "SO2", "N2", "P4O10", "H2O",
                    "O2_required">>,
         val |-> [k \in {"CO2", "Br2", "I2", "HCl", "HF", "SO2", "N2", "P4O10", "H2O",
                         "O2_required"} |->
            CASE k = "CO2" -> PerMole * AtomCount(atoms, "C")
              [] k = "Br2" -> (PerMole * AtomCount(atoms, "Br")) \div 2
              [] k = "I2" -> (PerMole * AtomCount(atoms, "I")) \div 2
              [] k = "HCl" -> PerMole * AtomCount(atoms, "Cl")
              [] k = "HF" -> PerMole * AtomCount(atoms, "F")
              [] k = "SO2" -> PerMole * AtomCount(atoms, "S")
              [] k = "N2" -> (PerMole * AtomCount(atoms, "N")) \div 2
              [] k = "P4O10" -> (PerMole * AtomCount(atoms, "P")) \div 4
              [] k = "H2O" -> (PerMole * (AtomCount(atoms, "H") - AtomCount(atoms, "Cl"))) \div 2
              [] k = "O2_required" ->
                    PerMole * AtomCount(atoms, "C") + PerMole * AtomCount(atoms, "S")
                    + (PerMole * AtomCount(atoms, "H")) \div 4
                    + (5 * PerMole * AtomCount(atoms, "P")) \div 4
                    - (PerMole * (AtomCount(atoms, "Cl") + AtomCount(atoms, "F"))) \div 4
                    - (PerMole * AtomCount(atoms, "O")) \div 2]],
        atoms, 1)

\* lines 99-141
combustion_products(atoms) ==
    PureElements(
        [keys |-> <<"CO2", "Br2", "I2", "HCl", "HF", "SO2", "N2", "P4O10", "H2O",
                    "O2_required">>,
         val |-> [k \in {"CO2", "Br2", "I2", "HCl", "HF", "SO2", "N2", "P4O10", "H2O",
                         "O2_required"} |->
            CASE k = "CO2" -> PerMole * AtomCount(atoms, "C")
              [] k = "Br2" -> (PerMole * AtomCount(atoms, "Br")) \div 2
              [] k = "I2" -> (PerMole * AtomCount(atoms, "I")) \div 2
              [] k = "HCl" -> PerMole * AtomCount(atoms, "Cl")
              [] k = "HF" -> PerMole * AtomCount(atoms, "F")
              [] k = "SO2" -> PerMole * AtomCount(atoms, "S")
              [] k = "N2" -> (PerMole * AtomCount(atoms, "N")) \div 2
              [] k = "P4O10" -> (PerMole * AtomCount(atoms, "P")) \div 4
              [] k = "H2O" -> (PerMole * (AtomCount(atoms, "H") - AtomCount(atoms, "Cl")
                                          - AtomCount(atoms, "F"))) \div 2
              [] k = "O2_required" ->
                    PerMole * AtomCount(atoms, "C") + PerMole * AtomCount(atoms, "S")
                    + (PerMole * AtomCount(atoms, "H")) \div 4
                    + (5 * PerMole * AtomCount(atoms, "P")) \div 4
                    - (PerMole * (AtomCount(atoms, "Cl") + AtomCount(atoms, "F"))) \div 4
                    - (PerMole * AtomCount(atoms, "O")) \div 2]],
        atoms, 1)

\* lines 205-207: the dict the mixture starts from
ZeroProducts ==
    [keys |-> <<"CO2", "Br2", "I2", "HCl", "HF", "SO2", "N2", "P4O10", "H2O",
                "O2_required">>,
     val |-> [k \in {"CO2", "Br2", "I2", "HCl", "HF", "SO2", "N2", "P4O10", "H2O",
                     "O2_required"} |-> 0]]

\* lines 215-220: every item of ans is added to products, scaled with zs_i
RECURSIVE AddItems(_, _, _, _)
AddItems(products, ans, zs_i, j) ==
    IF j > Len(ans.keys) THEN products
    ELSE CHOOSE r \in {AddItems(p, ans, zs_i, j + 1) :
                       p \in {DictSet(products, ans.keys[j],
                                      (IF Has(products, ans.keys[j])
                                       THEN products.val[ans.keys[j]] ELSE 0)
                                      + ans.val[ans.keys[j]] * zs_i)}} : TRUE

\* a variant of the loop body that burns the components flagged unreactive as well
MixtureStepMutant(products, atoms, zs_i, unreactive, CAS) ==
    CHOOSE r \in {AddItems(products, ans, zs_i, 1) : ans \in {combustion_products(atoms)}} :
        TRUE

\* lines 210-220: the body of the loop over the components
MixtureStep(products, atoms, zs_i, unreactive, CAS) ==
    IF unreactive
    THEN DictSet(products, CAS, PerMole * zs_i)
    ELSE CHOOSE r \in {AddItems(products, ans, zs_i, 1) :
                       ans \in {combustion_products(atoms)}} : TRUE

RECURSIVE MixtureLoop(_, _, _, _, _, _)
MixtureLoop(products, atoms_list, zs, reactivities, CASs, i) ==
    IF i > Min2(Len(atoms_list), Len(zs)) THEN products
    ELSE CHOOSE r \in {MixtureLoop(p, atoms_list, zs, reactivities, CASs, i + 1) :
                       p \in {MixtureStep(products, atoms_list[i], zs[i],
                                          IsSet(reactivities) /\ ~Val(reactivities)[i],
                                          CASs[i])}} : TRUE

\* lines 146-221
combustion_products_mixture(atoms_list, zs, reactivities, CASs) ==
    MixtureLoop(ZeroProducts, atoms_list, zs, reactivities, CASs, 1)

\* lines 363-373
combustion_products_to_CASs ==
    [p \in {"Br2", "CO2", "H2O", "HCl", "HF", "I2", "N2", "O2", "P4O10", "SO2"} |->
        CASE p = "Br2" -> "7726-95-6"
          [] p = "CO2" -> "124-38-9"
          [] p = "H2O" -> "7732-18-5"
          [] p = "HCl" -> "7647-01-0"
          [] p = "HF" -> "7664-39-3"
          [] p = "I2" -> "7553-56-2"
          [] p = "N2" -> "7727-37-9"
          [] p = "O2" -> "7782-44-7"
          [] p = "P4O10" -> "16752-60-6"
          [] p = "SO2" -> "7446-09-5"]

InList(xs, x) == \E i \in 1..Len(xs) : xs[i] = x
Index(xs, x) == CHOOSE i \in 1..Len(xs) : xs[i] = x /\ \A j \in 1..(i - 1) : xs[j] # x

\* lines 383-389: one product is placed, ignored or refused
ToListStep(zs, product, zi, CASs) ==
    IF InList(CASs, product)
    THEN [exc |-> "none", zs |-> [zs EXCEPT ![Index(CASs, product)] = zi]]
    ELSE IF product \notin DOMAIN combustion_products_to_CASs
    THEN [exc |-> "KeyError", zs |-> zs]
    ELSE IF InList(CASs, combustion_products_to_CASs[product])
    THEN [exc |-> "none",
          zs |-> [zs EXCEPT ![Index(CASs, combustion_products_to_CASs[product])] = zi]]
    ELSE IF Abs(zi) > 0
    THEN [exc |-> "ValueError", zs |-> zs]
    ELSE [exc |-> "none", zs |-> zs]

\* lines 378-381: the loop over products.items(); O2_required is the negated amount of O2
RECURSIVE ToListLoop(_, _, _, _)
ToListLoop(r, products, CASs, j) ==
    IF j > Len(products.keys) \/ r.exc # "none" THEN r
    ELSE CHOOSE q \in {ToListLoop(n, products, CASs, j + 1) :
                       n \in {IF products.keys[j] = "O2_required"
                              THEN ToListStep(r.zs, "O2", -(products.val[products.keys[j]]),
                                              CASs)
                              ELSE ToListStep(r.zs, products.keys[j],
                                              products.val[products.keys[j]], CASs)}} : TRUE

\* lines 376-391
combustion_products_to_list(products, CASs) ==
    ToListLoop([exc |-> "none", zs |-> [i \in 1..Len(CASs) |-> 0]], products, CASs, 1)

\* the atoms dicts over combustion_atoms: at most MaxKinds elements, counts to MaxCount
CombustionAtomsDicts ==
    UNION {[S -> 0..MaxCount] :
           S \in {K \in SUBSET combustion_atoms : Cardinality(K) <= MaxKinds}}

\* molecules that hold an element outside combustion_atoms: argon, sodium hydroxide
OtherAtomsDicts == {("Ar" :> 1), ("Ar" :> 0), ("Na" :> 1) @@ ("O" :> 1) @@ ("H" :> 1)}

\* the compounds of the packages: methane, oxygen, nitrogen, water, carbon dioxide, argon
Compounds ==
    <<[CAS |-> "74-82-8", atoms |-> ("C" :> 1) @@ ("H" :> 4)],
      [CAS |-> "7782-44-7", atoms |-> ("O" :> 2)],
      [CAS |-> "7727-37-9", atoms |-> ("N" :> 2)],
      [CAS |-> "7732-18-5", atoms |-> ("H" :> 2) @@ ("O" :> 1)],
      [CAS |-> "124-38-9", atoms |-> ("C" :> 1) @@ ("O" :> 2)],
      [CAS |-> "7440-37-1", atoms |-> ("Ar" :> 1)]>>

\* packages: one without the products of methane, a complete one, one with argon
Packages == {<<1, 2, 3>>, <<1, 2, 3, 4, 5>>, <<1, 2, 6, 4, 5>>}
CASsOf(p) == [i \in 1..Len(p) |-> Compounds[p[i]].CAS]
atomssOf(p) == [i \in 1..Len(p) |-> Compounds[p[i]].atoms]
Flows == 0..2

\* the CAS list a single molecule's products are placed in: every product but HF
ProductCASs ==
    <<"7726-95-6", "124-38-9", "7732-18-5", "7647-01-0", "7553-56-2", "7727-37-9",
      "7782-44-7", "16752-60-6", "7446-09-5">>

(***************************************************************************)
(* SpecCombustion: the arguments of one call of combustion_products or of   *)
(* combustion_products_mixture, the call, then combustion_products_to_list  *)
(* on its result.  The arguments are held in eos; no EOS instance exists.   *)
(***************************************************************************)
InitCombustion ==
    /\ \/ \E atoms \in CombustionAtomsDicts \cup OtherAtomsDicts :
            eos = [family |-> "none", atoms |-> atoms, CASs |-> ProductCASs]
       \/ \E p \in Packages :
           \E zs \in [1..Len(p) -> Flows],
              reactivities \in Opt([1..Len(p) -> BOOL]) :
            eos = [family |-> "none", atoms_list |-> atomssOf(p), zs |-> zs,
                   reactivities |-> reactivities, CASs |-> CASsOf(p)]
    /\ ret = NoRet
    /\ fl = IdleFl
    /\ st = IdleSt

CombustionProducts ==
    /\ ret = NoRet
    /\ "atoms" \in DOMAIN eos
    /\ ret' = [op |-> "combustion_products", atoms |-> eos.atoms,
               products |-> combustion_products(eos.atoms)]
    /\ UNCHANGED <<eos, fl, st>>

CombustionProductsMixture ==
    /\ ret = NoRet
    /\ "atoms_list" \in DOMAIN eos
    /\ ret' = [op |-> "combustion_products_mixture",
               products |-> combustion_products_mixture(eos.atoms_list, eos.zs,
                                                        eos.reactivities, eos.CASs)]
    /\ UNCHANGED <<eos, fl, st>>

CombustionProductsToList ==
    /\ ret.op \in {"combustion_products", "combustion_products_mixture"}
    /\ \E r \in {combustion_products_to_list(ret.products, eos.CASs)} :
         ret' = [op |-> "combustion_products_to_list", products |-> ret.products,
                 exc |-> r.exc, zs |-> r.zs]
    /\ UNCHANGED <<eos, fl, st>>

NextCombustion == CombustionProducts \/ CombustionProductsMixture \/ CombustionProductsToList

SpecCombustion == InitCombustion /\ [][NextCombustion]_vars

\* C29: for an atoms dict over C, H, N, O, S, Br, I, Cl, F, P the products of
\* combustion_products balance every element: CO2 = nC, SO2 = nS, 2 N2 = nN,
\* 2 Br2 = nBr, 2 I2 = nI, HCl = nCl, HF = nF, 4 P4O10 = nP, 2 H2O + HCl + HF = nH
\* and 2 CO2 + 2 SO2 + H2O + 10 P4O10 = nO + 2 O2_required (amounts in 1/PerMole mole).
C29_ElementsBalance ==
    (ret.op = "combustion_products" /\ DOMAIN ret.atoms \subseteq combustion_atoms) =>
        /\ ret.products.val["CO2"] = PerMole * AtomCount(ret.atoms, "C")
        /\ ret.products.val["SO2"] = PerMole * AtomCount(ret.atoms, "S")
        /\ 2 * ret.products.val["N2"] = PerMole * AtomCount(ret.atoms, "N")
        /\ 2 * ret.products.val["Br2"] = PerMole * AtomCount(ret.atoms, "Br")
        /\ 2 * ret.products.val["I2"] = PerMole * AtomCount(ret.atoms, "I")
        /\ ret.products.val["HCl"] = PerMole * AtomCount(ret.atoms, "Cl")
        /\ ret.products.val["HF"] = PerMole * AtomCount(ret.atoms, "F")
        /\ 4 * ret.products.val["P4O10"] = PerMole * AtomCount(ret.atoms, "P")
        /\ 2 * ret.products.val["H2O"] + ret.products.val["HCl"] + ret.products.val["HF"]
             = PerMole * AtomCount(ret.atoms, "H")
        /\ 2 * ret.products.val["CO2"] + 2 * ret.products.val["SO2"]
             + ret.products.val["H2O"] + 10 * ret.products.val["P4O10"]
             = PerMole * AtomCount(ret.atoms, "O") + 2 * ret.products.val["O2_required"]

\* a molecule of hydrogen, chlorine and fluorine with more halogen than hydrogen:
\* the water amount is negative and the balances still close
C29_Witness ==
    /\ ret.op = "combustion_products"
    /\ DOMAIN ret.atoms = {"H", "Cl", "F"}
    /\ ret.atoms["H"] = 1
    /\ ret.atoms["Cl"] = 1
    /\ ret.atoms["F"] = 1
    /\ ret.products.val["H2O"] < 0
    /\ 2 * ret.products.val["H2O"] + ret.products.val["HCl"] + ret.products.val["HF"]
         = PerMole * ret.atoms["H"]

\* component i of the mixture call held in eos is burnt
Combusted(i) == ~(IsSet(eos.reactivities) /\ ~Val(eos.reactivities)[i])

\* the amount of product k that one mole of component i gives
PerMoleAmount(i, k) ==
    IF Has(combustion_products(eos.atoms_list[i]), k)
    THEN combustion_products(eos.atoms_list[i]).val[k]
    ELSE 0

\* C24: in the result of combustion_products_mixture every combustion product, and
\* O2_required, is the sum over the combusted components of zs_i times the amount
\* combustion_products gives per mole of the component; a component flagged
\* unreactive is in the result under its CAS number with amount zs_i and adds to
\* no product and not to O2_required.
C24_MixtureIsWeightedSum ==
    (ret.op = "combustion_products_mixture") =>
        /\ \A k \in DOMAIN ret.products.val :
              ~InList(eos.CASs, k) =>
                 ret.products.val[k] =
                    SumTo(Len(eos.zs), [i \in 1..Len(eos.zs) |->
                        IF Combusted(i) THEN eos.zs[i] * PerMoleAmount(i, k) ELSE 0])
        /\ \A k \in DOMAIN ZeroProducts.val : Has(ret.products, k)
        /\ \A i \in 1..Len(eos.zs) :
              ~Combusted(i) => /\ Has(ret.products, eos.CASs[i])
                               /\ ret.products.val[eos.CASs[i]] = PerMole * eos.zs[i]

\* methane and oxygen of the feed are burnt, carbon dioxide of the feed is flagged
\* unreactive: the feed oxygen is taken off O2_required and the unreactive carbon
\* dioxide is listed under its CAS number, apart from the carbon dioxide formed
C24_Witness ==
    /\ ret.op = "combustion_products_mixture"
    /\ eos.CASs = <<"74-82-8", "7782-44-7", "7727-37-9", "7732-18-5", "124-38-9">>
    /\ eos.zs = <<1, 1, 0, 0, 2>>
    /\ eos.reactivities = Some(<<TRUE, TRUE, TRUE, TRUE, FALSE>>)
    /\ ret.products.val["O2_required"] = PerMole * (2 - 1)
    /\ ret.products.val["CO2"] = PerMole
    /\ ret.products.val["124-38-9"] = 2 * PerMole

\* the name under which combustion_products_to_list looks a product up
ListName(k) == IF k = "O2_required" THEN "O2" ELSE k

\* product k has a position in the CAS list of the call held in eos
Placeable(k) ==
    \/ InList(eos.CASs, ListName(k))
    \/ /\ ListName(k) \in DOMAIN combustion_products_to_CASs
       /\ InList(eos.CASs, combustion_products_to_CASs[ListName(k)])

\* C28: combustion_products_to_list fails with ValueError when a product of non-zero
\* amount has no position in CASs, products returned as pure elements included;
\* otherwise it returns a list aligned with CASs that holds the negated O2_required
\* at the position of O2, products of zero amount without a position being ignored.
C28_ToListPlacesOrRefuses ==
    (ret.op = "combustion_products_to_list") =>
        IF \E k \in DOMAIN ret.products.val : ret.products.val[k] # 0 /\ ~Placeable(k)
        THEN ret.exc = "ValueError"
        ELSE /\ ret.exc = "none"
             /\ Len(ret.zs) = Len(eos.CASs)
             /\ InList(eos.CASs, "7782-44-7") =>
                   ret.zs[Index(eos.CASs, "7782-44-7")] = -(ret.products.val["O2_required"])

(***************************************************************************)
(* fuel_air_spec_solver, as far as which quantities it determines: a        *)
(* quantity is TRUE when it is not None; the numbers are not modelled.      *)
(* The package holds O2 and H2O and every product of the fuel; molar        *)
(* volumes and molecular weights are supplied when a ratio is given.        *)
(***************************************************************************)
Extensive == {"n_air", "n_fuel", "n_out"}
Intensive == {"O2_excess", "frac_out_O2", "frac_out_O2_dry", "ratio"}
RatioBases == {"mass", "mole", "volume"}

\* lines 482-506: the missing flow rate from the other and the ratio, for each basis
air_fuel_ratio_solver(n_air, n_fuel, basis) ==
    [n_air |-> n_air \/ (basis \in RatioBases /\ n_fuel /\ ~n_air),
     n_fuel |-> n_fuel \/ (basis \in RatioBases /\ n_air /\ ~n_fuel),
     exc |-> IF (n_air \/ (basis \in RatioBases /\ n_fuel /\ ~n_air))
                /\ (n_fuel \/ (basis \in RatioBases /\ n_air /\ ~n_fuel))
             THEN "none" ELSE "ValueError"]

\* lines 658-660
RatioStep(a) ==
    IF a.given["ratio"] /\ (~a.given["n_air"] \/ ~a.given["n_fuel"])
    THEN air_fuel_ratio_solver(a.given["n_air"], a.given["n_fuel"], a.ratio_basis)
    ELSE [n_air |-> a.given["n_air"], n_fuel |-> a.given["n_fuel"], exc |-> "none"]

\* lines 662-694: O2_excess with the fuel flow, the air flow or the outlet flow
O2ExcessStep(a, s) ==
    IF s.exc = "none" /\ a.given["O2_excess"] /\ (~s.n_fuel \/ ~s.n_air)
    THEN IF s.n_fuel THEN [s EXCEPT !.n_air = TRUE]
         ELSE IF s.n_air THEN [s EXCEPT !.n_fuel = TRUE]
         ELSE IF a.given["n_out"] THEN [s EXCEPT !.n_fuel = TRUE, !.n_air = TRUE]
         ELSE s
    ELSE s

\* lines 697-771: an outlet O2 fraction (wet or dry) with one flow
FracStep(a, s) ==
    IF s.exc = "none" /\ (a.given["frac_out_O2"] \/ a.given["frac_out_O2_dry"])
       /\ (~s.n_fuel \/ ~s.n_air)
    THEN IF s.n_fuel
         THEN IF a.n_O2_stoic_negative
              THEN [s EXCEPT !.exc = "ValueError"]
              ELSE [s EXCEPT !.n_air = TRUE]
         ELSE IF s.n_air \/ a.given["n_out"]
         THEN IF s.n_air THEN [s EXCEPT !.n_fuel = TRUE]
              ELSE [s EXCEPT !.n_fuel = TRUE, !.n_air = TRUE]
         ELSE s
    ELSE s

\* lines 776-795: the outlet flow with one inlet flow
OutStep(a, s) ==
    IF s.exc = "none" /\ a.given["n_out"] /\ (~s.n_fuel \/ ~s.n_air)
    THEN IF s.n_fuel THEN [s EXCEPT !.n_air = TRUE]
         ELSE IF s.n_air THEN [s EXCEPT !.n_fuel = TRUE]
         ELSE s
    ELSE s

\* lines 797-833: the results dict
Results(a, s) ==
    IF s.exc # "none" THEN [exc |-> s.exc, n_air |-> FALSE, n_fuel |-> FALSE, keys |-> {}]
    ELSE [exc |-> "none", n_air |-> s.n_air, n_fuel |-> s.n_fuel,
          keys |-> IF s.n_fuel /\ s.n_air
                   THEN {"n_fuel", "n_air", "ns_out", "zs_out", "n_out", "frac_out_O2",
                         "frac_out_O2_dry", "O2_excess", "mole_ratio", "mass_ratio",
                         "volume_ratio"}
                   ELSE {"n_fuel", "n_air"}]

\* lines 515-833
fuel_air_spec_solver(a) == Results(a, OutStep(a, FracStep(a, O2ExcessStep(a, RatioStep(a)))))

(***************************************************************************)
(* SpecSolver: the arguments of one call of fuel_air_spec_solver (held in   *)
(* eos; no EOS instance exists) and the call.                               *)
(***************************************************************************)
InitSolver ==
    /\ \E given \in [Extensive \cup Intensive -> BOOL], ratio_basis \in RatioBases :
        \E n_O2_stoic_negative \in BOOL :
          eos = [family |-> "none", given |-> given, ratio_basis |-> ratio_basis,
                 n_O2_stoic_negative |-> n_O2_stoic_negative]
    /\ ret = NoRet
    /\ fl = IdleFl
    /\ st = IdleSt

FuelAirSpecSolver ==
    /\ ret = NoRet
    /\ \E r \in {fuel_air_spec_solver(eos)} :
         ret' = [op |-> "fuel_air_spec_solver", exc |-> r.exc, n_air |-> r.n_air,
                 n_fuel |-> r.n_fuel, keys |-> r.keys]
    /\ UNCHANGED <<eos, fl, st>>

SpecSolver == InitSolver /\ [][FuelAirSpecSolver]_vars

GivenOf(S) == {x \in S : eos.given[x]}

\* C23: given two of n_air, n_fuel, n_out, or one of them with one of O2_excess,
\* frac_out_O2, frac_out_O2_dry, ratio, fuel_air_spec_solver determines n_air and
\* n_fuel and returns a dict that also holds n_out, O2_excess, frac_out_O2,
\* frac_out_O2_dry, ns_out and zs_out (for a fuel that needs oxygen from the air).
C23_TwoSpecsDetermineFlows ==
    (/\ ret.op = "fuel_air_spec_solver"
     /\ ~eos.n_O2_stoic_negative
     /\ \/ Cardinality(GivenOf(Extensive)) = 2 /\ GivenOf(Intensive) = {}
        \/ Cardinality(GivenOf(Extensive)) = 1 /\ Cardinality(GivenOf(Intensive)) = 1)
    => /\ ret.exc = "none"
       /\ ret.n_air
       /\ ret.n_fuel
       /\ {"n_out", "O2_excess", "frac_out_O2", "frac_out_O2_dry", "ns_out", "zs_out"}
             \subseteq ret.keys

(***************************************************************************)
(* The sub-evaluations sequential_substitution_VL returns.                  *)
(***************************************************************************)
SameComp(a, b) == Len2(a) = Len2(b) /\ \A i \in 1..Len2(a) : Frac(a, i) = Frac(b, i)

\* C25 as stated: the returned eos_l was evaluated at the returned xs and the
\* returned eos_g at the returned ys.
C25_SubstatesOfReturned ==
    fl.pc = "returned" =>
        /\ SameComp(Val(fl.eos_l).zs, fl.xs)
        /\ SameComp(Val(fl.eos_g).zs, fl.ys)

\* C25, amended: the returned eos_l and eos_g were evaluated at the trial xs and ys
\* the final iteration started with, the compositions its convergence criterion was
\* met at; the returned xs and ys are that iteration's updated compositions.
C25_SubstatesOfFinalTrial ==
    [][(fl.pc = "loop" /\ fl'.pc = "returned") =>
          /\ SameComp(Val(fl'.eos_l).zs, fl.xs)
          /\ SameComp(Val(fl'.eos_g).zs, fl.ys)
          /\ fl'.xs = DegeneracyGuard(Val(fl'.xs_rr))
          /\ fl'.ys = DegeneracyGuard(Val(fl'.ys_rr))]_vars
C25_Witness ==
    /\ fl.pc = "returned"
    /\ fl.i = 1
    /\ ~SameComp(Val(fl.eos_l).zs, fl.xs)
    /\ ~SameComp(Val(fl.eos_g).zs, fl.ys)

(***************************************************************************)
(* eos_lnphis_lowest_Gibbs and eos_fugacities_lowest_Gibbs on an instance   *)
(* with one or two volume roots.  The instance is a record of the           *)
(* attributes these methods read: Z_l, Z_g, G_dep_l, G_dep_g (set by the    *)
(* solver for the roots that exist) and lnphis_l, lnphis_g, fugacities_l,   *)
(* fugacities_g (set by fugacities()).  One component with z = 1; a log     *)
(* fugacity coefficient is a power of two's exponent so that phi = exp      *)
(* (lnphi) and f = phi*z*P are exact.  lnphi_l and lnphi_g are what         *)
(* fugacity_coefficients returns for Z_l and Z_g.                           *)
(***************************************************************************)
RootSets == {{"l"}, {"g"}, {"l", "g"}}
GDeps == 0..1
LnPhis == 0..1
Pressures == 1..2

\* lines 1106-1123
fugacities(s, only_l, only_g) ==
    LET do_l == ~only_g /\ "l" \in s.roots
        do_g == ~only_l /\ "g" \in s.roots
    IN  [s EXCEPT !.lnphis_l = IF do_l THEN Some(<<Rat(s.lnphi_l, 1)>>) ELSE @,
                  !.fugacities_l = IF do_l THEN Some(<<RMul(Pow2(s.lnphi_l), Rat(s.P, 1))>>)
                                   ELSE @,
                  !.lnphis_g = IF do_g THEN Some(<<Rat(s.lnphi_g, 1)>>) ELSE @,
                  !.fugacities_g = IF do_g THEN Some(<<RMul(Pow2(s.lnphi_g), Rat(s.P, 1))>>)
                                   ELSE @]

Raised == [raised |-> TRUE, value |-> << >>, phase |-> "none"]
Returned(attr, phase) ==
    IF IsSet(attr) THEN [raised |-> FALSE, value |-> Val(attr), phase |-> phase] ELSE Raised

\* the two nested try blocks both methods share, for the pair of attributes they
\* read: the value returned with its label, or Raised when the outer except runs
LowestGibbsOf(s, attr_l, attr_g) ==
    LET first == IF s.roots = {"l", "g"}
                 THEN IF s.G_dep_l < s.G_dep_g
                      THEN Returned(attr_l, "l")
                      ELSE Returned(attr_g, "g")
                 ELSE Raised
    IN  IF ~first.raised THEN first
        ELSE IF "g" \in s.roots THEN Returned(attr_g, "g")
        ELSE Returned(attr_l, "l")

\* lines 1141-1153: the result and the instance after the call
fugacities_lowest_Gibbs(s) ==
    IF ~LowestGibbsOf(s, s.fugacities_l, s.fugacities_g).raised
    THEN [res |-> LowestGibbsOf(s, s.fugacities_l, s.fugacities_g), eos |-> s]
    ELSE [res |-> LowestGibbsOf(fugacities(s, FALSE, FALSE),
                                fugacities(s, FALSE, FALSE).fugacities_l,
                                fugacities(s, FALSE, FALSE).fugacities_g),
          eos |-> fugacities(s, FALSE, FALSE)]

\* lines 1126-1138
eos_lnphis_lowest_Gibbs(s) ==
    IF ~LowestGibbsOf(s, s.lnphis_l, s.lnphis_g).raised
    THEN [res |-> LowestGibbsOf(s, s.lnphis_l, s.lnphis_g), eos |-> s]
    ELSE fugacities_lowest_Gibbs(fugacities(s, FALSE, FALSE))

(***************************************************************************)
(* SpecLowest: an instance built with fugacities=True or without them       *)
(* (fugacities=False, to_TP_zs_fast), a call of fugacities() for one phase  *)
(* or both, and up to two calls of eos_lnphis_lowest_Gibbs.                 *)
(***************************************************************************)
InitLowest ==
    /\ \E roots \in RootSets, G_dep_l \in GDeps, G_dep_g \in GDeps, P \in Pressures :
        \E lnphi_l \in LnPhis, lnphi_g \in LnPhis, computed \in BOOL :
          \E s \in {[family |-> "none", roots |-> roots, P |-> P,
                     G_dep_l |-> G_dep_l, G_dep_g |-> G_dep_g,
                     lnphi_l |-> lnphi_l, lnphi_g |-> lnphi_g,
                     lnphis_l |-> Unset, lnphis_g |-> Unset,
                     fugacities_l |-> Unset, fugacities_g |-> Unset]} :
            eos = IF computed THEN fugacities(s, FALSE, FALSE) ELSE s
    /\ ret = NoRet
    /\ fl = IdleFl
    /\ st = IdleSt

FugacitiesCall ==
    /\ ret = NoRet
    /\ \E only_l \in BOOL, only_g \in BOOL :
         /\ eos' = fugacities(eos, only_l, only_g)
         /\ ret' = [op |-> "fugacities", only_l |-> only_l, only_g |-> only_g]
    /\ UNCHANGED <<fl, st>>

LowestGibbsCall ==
    /\ ret.op \in {"none", "fugacities"} \/ (ret.op = "eos_lnphis_lowest_Gibbs" /\ ret.n = 1)
    /\ \E r \in {eos_lnphis_lowest_Gibbs(eos)} :
         /\ eos' = r.eos
         /\ ret' = [op |-> "eos_lnphis_lowest_Gibbs",
                    value |-> r.res.value, phase |-> r.res.phase,
                    n |-> IF ret.op = "eos_lnphis_lowest_Gibbs" THEN 2 ELSE 1,
                    before |-> IF ret.op = "eos_lnphis_lowest_Gibbs"
                               THEN Some(<<ret.value, ret.phase>>) ELSE Unset]
    /\ UNCHANGED <<fl, st>>

NextLowest == FugacitiesCall \/ LowestGibbsCall

SpecLowest == InitLowest /\ [][NextLowest]_vars

\* the phase with the lowest departure Gibbs energy, or the only root
LowestPhase(s) ==
    IF s.roots = {"l", "g"} THEN (IF s.G_dep_l < s.G_dep_g THEN "l" ELSE "g")
    ELSE IF s.roots = {"l"} THEN "l" ELSE "g"
LnPhisOfPhase(s, p) == IF p = "l" THEN <<Rat(s.lnphi_l, 1)>> ELSE <<Rat(s.lnphi_g, 1)>>

\* C27: eos_lnphis_lowest_Gibbs returns the log fugacity coefficients of the phase
\* with the lowest departure Gibbs energy (or of the only root) with that phase's
\* label, also when the fugacities had not been computed, and a second call in a row
\* returns the same value.
C27_LowestGibbsLnPhis ==
    ret.op = "eos_lnphis_lowest_Gibbs" =>
        /\ ret.value = LnPhisOfPhase(eos, LowestPhase(eos))
        /\ ret.phase = LowestPhase(eos)
        /\ IsSet(ret.before) => <<ret.value, ret.phase>> = Val(ret.before)

\* C26: a call of fugacity_coefficients(Z, zs) with a trial composition that is not
\* the instance's own changes no state of the instance: the cached
\* fugacity_sum_terms, and what the instance later derives from that cache for its
\* own composition, are the same as if the call had not been made.
C26_TrialCallLeavesCache ==
    [][(ret'.op = "fugacity_coefficients" /\ ret'.zs # eos.zs /\ IsSet(eos.a_alpha_ijs)) =>
          /\ IsSet(eos.fugacity_sum_terms) => eos'.fugacity_sum_terms = eos.fugacity_sum_terms
          /\ fugacity_sum_terms_property(eos').value = fugacity_sum_terms_property(eos).value]_vars

\* C30: Psat(T) called on an instance with more than one component evaluates the
\* pure-fluid saturation pressure with the mole-fraction-weighted constants and
\* returns that value to the caller: the call ends without an exception.
C30_PsatOfMixtureReturns ==
    (ret.op = "Psat" /\ eos.N > 1) => ret.exc = "none"

====
